---- MODULE Spec2Model ----
\* A model of the cosmogony zone pipeline (create_ontology): inclusion discovery,
\* country resolution and rule-based typing, hierarchy construction, Voronoi
\* augmentation, naming, labelling and pruning of the untyped zones; of the
\* construction of the zones from the parsed pbf; and of the merger of streamed
\* cosmogonies.
EXTENDS Integers, Sequences, FiniteSets, TLC

VARIABLES
    zones,            \* Vec<Zone>: the zone vector
    inclusions,       \* Vec<Vec<ZoneIndex>>: result of find_inclusions
    libpostal,        \* the embedded rule files: file stem -> rule set
    countries_rules,  \* ZoneTyper.countries_rules: country code -> rule set
    country_code,     \* Option<String>: the user supplied country code
    stats,            \* CosmogonyStats (the typing failure counters)
    handed,           \* per zone, the Option<String> computed by get_country_code
    pc,               \* position in create_ontology
    pbf,              \* the parsed pbf: administrative relations and postcodes
    filter_langs,     \* Vec<String>: the languages the labels are restricted to
    merger_files,     \* the merger's input files still to read
    id_offset,        \* CosmogonyMerger.id_offset
    writer,           \* the merger's output stream
    geos_cache,       \* GeosBoundaryCache.cache: the map behind the RwLock
    cache_lock,       \* the RwLock: the threads holding it for reading, for writing
    voronoi_threads,  \* per thread, its position in extrude_existing_town and locals
    town_boundaries   \* per town, whether its boundary converts to a GEOS geometry

\* the state of the threads that compute Voronoi cells and of the cache they share
cache_vars == <<geos_cache, cache_lock, voronoi_threads, town_boundaries>>

vars == <<zones, inclusions, libpostal, countries_rules, country_code, stats, handed, pc,
          pbf, filter_langs, merger_files, id_offset, writer, cache_vars>>

\* no thread computes Voronoi cells
CacheUnused ==
    /\ geos_cache = <<>>
    /\ cache_lock = [readers |-> {}, writer |-> {}]
    /\ voronoi_threads = <<>>
    /\ town_boundaries = <<>>

----------------------------------------------------------------------------
\* Bounds of the model

MaxZones == 3
MaxPlaces == 1
MaxFiles == 3

----------------------------------------------------------------------------
\* Option<T> is a sequence of length at most one

None == <<>>
Some(x) == <<x>>
IsSome(o) == o # <<>>
Unwrap(o) == o[1]

SeqRange(s) == {s[k] : k \in 1..Len(s)}

RECURSIVE SeqFilter(_, _)
\* the elements of s whose position is in keep, in order (Iterator::filter)
SeqFilter(s, keep) ==
    IF s = <<>> THEN <<>>
    ELSE LET rest == SeqFilter(Tail(s), {k - 1 : k \in keep \ {1}})
         IN IF 1 \in keep THEN <<Head(s)>> \o rest ELSE rest

----------------------------------------------------------------------------
\* ZoneType and its derived order

ZoneType == {"Suburb", "CityDistrict", "City", "StateDistrict", "State",
             "CountryRegion", "Country", "NonAdministrative"}

\* #[derive(Ord)]: the variants are ordered by their position in the enum
ZoneTypeOrd ==
    [Suburb |-> 0, CityDistrict |-> 1, City |-> 2, StateDistrict |-> 3, State |-> 4,
     CountryRegion |-> 5, Country |-> 6, NonAdministrative |-> 7]

\* Option<ZoneType> as a sort key: None is smaller than every Some(_)
OptTypeKey(t) == IF t = None THEN 0 - 1 ELSE ZoneTypeOrd[Unwrap(t)]

\* a comparison that lets equal types through
OptTypeLt_or_equal(a, b) == OptTypeKey(a) <= OptTypeKey(b)

OptTypeLt(a, b) == OptTypeKey(a) < OptTypeKey(b)

----------------------------------------------------------------------------
\* Geometry: a boundary is a set of cells of a line; a bbox is the interval
\* spanned by the cells

SetMin(S) == CHOOSE x \in S : \A y \in S : x <= y
SetMax(S) == CHOOSE x \in S : \A y \in S : y <= x

bounding_rect(boundary) ==
    IF boundary = {} THEN None ELSE Some(<<SetMin(boundary), SetMax(boundary)>>)

BboxIntersects(a, b) == a[1] <= b[2] /\ b[1] <= a[2]

\* Zone::contains: self's boundary covers other's boundary
contains(self, other) ==
    /\ IsSome(self.boundary)
    /\ IsSome(other.boundary)
    /\ Unwrap(other.boundary) \subseteq Unwrap(self.boundary)

\* Zone::contains_center
contains_center(self, other) ==
    /\ IsSome(self.boundary)
    /\ IsSome(other.center)
    /\ Unwrap(other.center) \in Unwrap(self.boundary)

----------------------------------------------------------------------------
\* Zone

is_admin(z) == z.zone_type # None /\ z.zone_type # Some("NonAdministrative")

\* a parent test that only asks for a typed parent
can_be_child_of_typed(self, z) ==
    z.zone_type # None /\ (~is_admin(self) \/ OptTypeLt(self.zone_type, z.zone_type))

\* a parent test that forgets to ask for an administrative parent
can_be_child_of_any(self, z) ==
    ~is_admin(self) \/ OptTypeLt(self.zone_type, z.zone_type)

\* a parent test that accepts a parent of the zone's own type
can_be_child_of_same_type(self, z) ==
    is_admin(z) /\ (~is_admin(self) \/ ~OptTypeLt(z.zone_type, self.zone_type))

can_be_child_of(self, z) ==
    is_admin(z) /\ (~is_admin(self) \/ OptTypeLt(self.zone_type, z.zone_type))

\* ZonesTree::fetch_zone_bbox: the indices whose bbox intersects z's bbox, in the
\* order the tree yields them (ascending index here)
fetch_zone_bbox(zs, z) ==
    IF z.bbox = None THEN <<>>
    ELSE SeqFilter([k \in 1..Len(zs) |-> zs[k].id],
                   {k \in 1..Len(zs) :
                        /\ zs[k].bbox # None
                        /\ BboxIntersects(Unwrap(zs[k].bbox), Unwrap(z.bbox))})

\* MutableSlice::get / zones[idx.index]: ZoneIndex i is position i + 1
ZoneAt(zs, idx) == zs[idx + 1]

find_inclusions(zs) ==
    [i \in 1..Len(zs) |->
        LET cand == fetch_zone_bbox(zs, zs[i])
        IN SeqFilter(cand, {k \in 1..Len(cand) :
                                /\ cand[k] # zs[i].id
                                /\ contains(ZoneAt(zs, cand[k]), zs[i])})]

\* a selection that takes the first candidate whatever its type
first_candidate(zs, cs) == IF cs = <<>> THEN None ELSE Some(Head(cs))

RECURSIVE min_by_key_type(_, _)
\* Iterator::min_by_key(|z| z.zone_type) over a sequence of zone indices: the first
\* of the minimal elements, None on the empty sequence
min_by_key_type(zs, cs) ==
    IF cs = <<>> THEN None
    ELSE LET rest == min_by_key_type(zs, Tail(cs))
         IN IF rest = None THEN Some(Head(cs))
            ELSE IF OptTypeLt(ZoneAt(zs, Unwrap(rest)).zone_type,
                              ZoneAt(zs, Head(cs)).zone_type)
                 THEN rest
                 ELSE Some(Head(cs))

\* the parent build_hierarchy selects for the zone at position i
hierarchy_parent(zs, incl, i) ==
    LET cs == incl[i]
        ok == SeqFilter(cs, {k \in 1..Len(cs) : can_be_child_of(zs[i], ZoneAt(zs, cs[k]))})
    IN min_by_key_type(zs, ok)

RECURSIVE build_hierarchy_from(_, _, _)
\* the loop of build_hierarchy from position i on: zone i's parent is set while the
\* other zones are read
build_hierarchy_from(zs, incl, i) ==
    IF i > Len(zs) THEN zs
    ELSE build_hierarchy_from(
             [zs EXCEPT ![i].parent = hierarchy_parent(zs, incl, i)], incl, i + 1)

build_hierarchy(zs, incl) == build_hierarchy_from(zs, incl, 1)

----------------------------------------------------------------------------
\* Strings that matter for their case are sequences of characters

UpperOf == [l |-> "L", u |-> "U", x |-> "X", z |-> "Z"]
LowerChars == DOMAIN UpperOf
LowerOf(c) == CHOOSE l \in LowerChars : UpperOf[l] = c

to_uppercase(s) == [k \in 1..Len(s) |-> IF s[k] \in LowerChars THEN UpperOf[s[k]] ELSE s[k]]
to_lowercase(s) ==
    [k \in 1..Len(s) |-> IF \E l \in LowerChars : UpperOf[l] = s[k] THEN LowerOf(s[k]) ELSE s[k]]

\* u32::to_string on the admin levels
u32_to_string == [n \in 0..11 |->
    <<"0", "1", "2", "3", "4", "5", "6", "7", "8", "9", "10", "11">>[n + 1]]

unwrap_or(o, d) == IF o = None THEN d ELSE Unwrap(o)

\* A BTreeMap is the set of its <<key, value>> entries
MapKeys(m) == {e[1] : e \in m}
MapAt(m, k) == (CHOOSE e \in m : e[1] = k)[2]
\* BTreeMap::get
MapGet(m, k) == IF k \in MapKeys(m) THEN Some(MapAt(m, k)) ELSE None

RECURSIVE sort_by_key(_)
\* slice::sort_by_key on a sequence of <<key, item>> pairs: stable, ascending
sort_by_key(ps) ==
    IF ps = <<>> THEN <<>>
    ELSE LET n == Len(ps)
             x == ps[n]
             front == sort_by_key(SubSeq(ps, 1, n - 1))
             le == {k \in 1..Len(front) : front[k][1] <= x[1]}
             at == IF le = {} THEN 0 ELSE SetMax(le)
         IN SubSeq(front, 1, at) \o <<x>> \o SubSeq(front, at + 1, Len(front))

----------------------------------------------------------------------------
\* Zone typer

COUNTRY_CODE_TAG == "ISO3166-1:alpha2"

\* read_libpostal_yaml_folder: one rule set per file, keyed by the upper-cased stem
read_libpostal_yaml_folder(files) == {<<to_uppercase(f[1]), f[2]>> : f \in files}

\* a lookup that takes the last inclusion-list zone with a contained_by rule
filter_map_last(contained_by, parents_osm_id) ==
    LET found == {k \in 1..Len(parents_osm_id) : parents_osm_id[k] \in MapKeys(contained_by)}
    IN IF found = {} THEN None ELSE Some(MapAt(contained_by, parents_osm_id[SetMax(found)]))

\* parents_osm_id.filter_map(|id| contained_by.get(id)).next()
filter_map_next(contained_by, parents_osm_id) ==
    LET found == {k \in 1..Len(parents_osm_id) : parents_osm_id[k] \in MapKeys(contained_by)}
    IN IF found = {} THEN None ELSE Some(MapAt(contained_by, parents_osm_id[SetMin(found)]))

RECURSIVE rules_get_zone_type(_, _, _, _)
RECURSIVE get_overrided_type(_, _, _, _)

\* RulesOverrides::get_overrided_type: None when no rule is specific to the zone,
\* Some(v) otherwise (v = None is the explicit "no type")
get_overrided_type(overrides, zone, zone_inclusions, all_zones) ==
    IF MapGet(overrides.id_rules, zone.osm_id) # None
    THEN MapGet(overrides.id_rules, zone.osm_id)
    ELSE IF overrides.contained_by = {} THEN None
    ELSE LET parents_osm_id ==
                 [k \in 1..Len(zone_inclusions) |-> ZoneAt(all_zones, zone_inclusions[k]).osm_id]
             country_rules == filter_map_next(overrides.contained_by, parents_osm_id)
         IN IF country_rules = None THEN None
            ELSE LET r == rules_get_zone_type(Unwrap(country_rules),
                                              zone, zone_inclusions, all_zones)
                 IN IF r = None THEN None ELSE Some(r)

\* a typing that takes an override of "no type" for the absence of an override
rules_get_zone_type_flattened(rules, zone, zone_inclusions, all_zones) ==
    LET o == get_overrided_type(rules.overrides, zone, zone_inclusions, all_zones)
    IN IF o # None /\ Unwrap(o) # None THEN Unwrap(o)
       ELSE MapGet(rules.type_by_level, u32_to_string[unwrap_or(zone.admin_level, 0)])

\* CountryAdminTypeRules::get_zone_type
rules_get_zone_type(rules, zone, zone_inclusions, all_zones) ==
    LET o == get_overrided_type(rules.overrides, zone, zone_inclusions, all_zones)
    IN IF o # None THEN Unwrap(o)
       ELSE MapGet(rules.type_by_level, u32_to_string[unwrap_or(zone.admin_level, 0)])

\* ZoneTyper::get_zone_type: Ok(t), InvalidCountry(code) or UnkownLevel(lvl, code)
get_zone_type(typer, zone, code, zone_inclusions, all_zones) ==
    IF MapGet(typer, code) = None
    THEN [kind |-> "InvalidCountry", country |-> code]
    ELSE LET t == rules_get_zone_type(MapAt(typer, code), zone, zone_inclusions, all_zones)
         IN IF t = None
            THEN [kind |-> "UnkownLevel", lvl |-> zone.admin_level, country |-> code]
            ELSE [kind |-> "Ok", type |-> Unwrap(t)]

----------------------------------------------------------------------------
\* Country finder

\* FromIterator for CountryFinder: one Country per zone carrying the country code
\* tag; only those with a boundary are inserted in the tree
CountryFinder_from_iter(zs) ==
    LET tagged == {k \in 1..Len(zs) : MapGet(zs[k].tags, COUNTRY_CODE_TAG) # None}
    IN [tree |-> SeqFilter([k \in 1..Len(zs) |->
                               [iso |-> IF k \in tagged
                                        THEN to_lowercase(MapAt(zs[k].tags, COUNTRY_CODE_TAG))
                                        ELSE <<>>,
                                zone |-> zs[k]]],
                           {k \in tagged : zs[k].bbox # None}),
        empty |-> tagged = {}]

\* CountryFinder::find_zone_country
find_zone_country(finder, z) ==
    IF z.boundary = None \/ z.bbox = None THEN None
    ELSE LET tree == finder.tree
             candidates == SeqFilter(tree, {k \in 1..Len(tree) :
                               BboxIntersects(Unwrap(tree[k].zone.bbox), Unwrap(z.bbox))})
             sorted == sort_by_key([k \in 1..Len(candidates) |->
                           <<0 - unwrap_or(candidates[k].zone.admin_level, 0), candidates[k]>>])
             within == SeqFilter(sorted, {k \in 1..Len(sorted) : contains(sorted[k][2].zone, z)})
         IN IF within = <<>> THEN None ELSE Some(within[1][2].iso)

\* get_country_code
get_country_code(finder, zone, code) ==
    IF code # None THEN Some(to_uppercase(Unwrap(code)))
    ELSE find_zone_country(finder, zone)

----------------------------------------------------------------------------
\* CosmogonyStats: the counters of type_zones

\* a counter that is set to one instead of being incremented
MapInc_insert(m, k) ==
    IF k \in MapKeys(m)
    THEN (m \ {<<k, MapAt(m, k)>>}) \cup {<<k, 1>>}
    ELSE m \cup {<<k, 1>>}

\* *map.entry(k).or_insert(0) += 1
MapInc(m, k) ==
    IF k \in MapKeys(m)
    THEN (m \ {<<k, MapAt(m, k)>>}) \cup {<<k, MapAt(m, k) + 1>>}
    ELSE m \cup {<<k, 1>>}

\* *map.entry(k1).or_insert_with(BTreeMap::new).entry(k2).or_insert(0) += 1
MapInc2(m, k1, k2) ==
    IF k1 \in MapKeys(m)
    THEN (m \ {<<k1, MapAt(m, k1)>>}) \cup {<<k1, MapInc(MapAt(m, k1), k2)>>}
    ELSE m \cup {<<k1, {<<k2, 1>>}>>}

CosmogonyStats_default ==
    [zone_without_country |-> 0,
     zone_with_unkwown_country_rules |-> {},
     unhandled_admin_level |-> {}]

\* one arm of the match on a zone's typing result
record_zone_type(st, zone_type) ==
    IF zone_type = None
    THEN [st EXCEPT !.zone_without_country = @ + 1]
    ELSE LET r == Unwrap(zone_type)
         IN IF r.kind = "Ok" THEN st
            ELSE IF r.kind = "InvalidCountry"
            THEN [st EXCEPT !.zone_with_unkwown_country_rules = MapInc(@, r.country)]
            ELSE [st EXCEPT !.unhandled_admin_level =
                                MapInc2(@, r.country, unwrap_or(r.lvl, 0))]

RECURSIVE record_zone_types(_, _)
\* the for_each over zones zipped with zones_type
record_zone_types(st, zones_type) ==
    IF zones_type = <<>> THEN st
    ELSE record_zone_types(record_zone_type(st, Head(zones_type)), Tail(zones_type))

----------------------------------------------------------------------------
\* Voronoi augmentor

CITY == "City"

Dist(a, b) == IF a <= b THEN b - a ELSE a - b

\* the outcomes of the geometry engine during one augmentation
GeosOutcome == {"ok", "parent_conversion_failed", "zone_conversion_failed",
                "back_conversion_failed", "difference_failed", "voronoi_failed"}

is_city(zone) == zone.zone_type = Some(CITY) /\ zone.boundary # None /\ zone.name # ""

\* Zone::from_osm_node followed by the fields read_places sets
PlaceZone(index, node) ==
    [id |-> index, osm_id |-> node.osm_id, admin_level |-> None,
     zone_type |-> Some(CITY), name |-> node.name, parent |-> None,
     boundary |-> None, bbox |-> Some(<<node.center, node.center>>),
     center |-> Some(node.center), tags |-> {}, is_generated |-> TRUE,
     label |-> <<>>, international_labels |-> {}, international_names |-> {},
     zip_codes |-> <<>>, center_tags |-> {}, wikidata |-> None]

read_places(nodes) ==
    LET all == [k \in 1..Len(nodes) |-> PlaceZone(k - 1, nodes[k])]
    IN SeqFilter(all, {k \in 1..Len(all) : all[k].name # ""})

get_parent(place, zs) ==
    LET cand == fetch_zone_bbox(zs, place)
        typed == SeqFilter(cand, {k \in 1..Len(cand) : ZoneAt(zs, cand[k]).zone_type # None})
        sorted == sort_by_key([k \in 1..Len(typed) |->
                      <<OptTypeKey(ZoneAt(zs, typed[k]).zone_type), typed[k]>>])
        within == SeqFilter(sorted, {k \in 1..Len(sorted) :
                                         contains_center(ZoneAt(zs, sorted[k][2]), place)})
    IN IF within = <<>> THEN None ELSE Some(within[1][2])

\* a filter that only asks for a parent above the cities
parent_accepted_above_city(p) ==
    p.zone_type # None /\ OptTypeLt(Some(CITY), p.zone_type)

\* the filter on the (parent, place) pairs in compute_additional_cities
parent_accepted(p) ==
    /\ p.zone_type # None
    /\ OptTypeLt(Some(CITY), p.zone_type)
    /\ OptTypeLt(p.zone_type, Some("Country"))

get_parent_neighbors(parent, zs) ==
    LET cand == fetch_zone_bbox(zs, parent)
    IN SeqFilter(cand, {k \in 1..Len(cand) : is_city(ZoneAt(zs, cand[k]))})

RECURSIVE subtract_towns(_, _, _)
\* the loop of extrude_existing_town over the towns: <<boundary, updates>>
subtract_towns(boundary, towns, zs) ==
    IF towns = <<>> THEN <<boundary, 0>>
    ELSE LET t == Unwrap(ZoneAt(zs, Head(towns)).boundary)
             hit == boundary \cap t # {}
             rest == subtract_towns(IF hit THEN boundary \ t ELSE boundary, Tail(towns), zs)
         IN <<rest[1], rest[2] + (IF hit THEN 1 ELSE 0)>>

\* extrude_existing_town: <<the zone afterwards, the boolean returned>>
extrude_existing_town(zone, towns, zs, geos) ==
    IF towns = <<>> \/ zone.boundary = None THEN <<zone, TRUE>>
    ELSE IF geos = "zone_conversion_failed" THEN <<zone, FALSE>>
    ELSE IF geos = "difference_failed" THEN <<zone, TRUE>>
    ELSE LET r == subtract_towns(Unwrap(zone.boundary), towns, zs)
         IN IF r[2] = 0 THEN <<zone, TRUE>>
            ELSE IF geos = "back_conversion_failed" THEN <<zone, FALSE>>
            ELSE <<[zone EXCEPT !.boundary = Some(r[1])], TRUE>>

with_bbox(place) ==
    IF place.boundary = None THEN place
    ELSE [place EXCEPT !.bbox = bounding_rect(Unwrap(place.boundary))]

\* the Voronoi cell of places[k] clipped to the parent's boundary
voronoi_cell(places, k, region) ==
    {x \in region :
        /\ \A j \in 1..Len(places) :
               Dist(x, Unwrap(places[k].center)) <= Dist(x, Unwrap(places[j].center))
        /\ \A j \in 1..(k - 1) :
               Dist(x, Unwrap(places[j].center)) # Dist(x, Unwrap(places[k].center))}

compute_voronoi(parent_id, places, zs, geos) ==
    LET parent == ZoneAt(zs, parent_id)
        towns == get_parent_neighbors(parent, zs)
    IN IF parent.boundary = None \/ geos = "parent_conversion_failed" THEN <<>>
       ELSE IF Len(places) = 1
       THEN LET place == [places[1] EXCEPT !.boundary = parent.boundary,
                                           !.parent = Some(parent.id)]
                r == extrude_existing_town(place, towns, zs, geos)
            IN IF r[2] THEN <<with_bbox(r[1])>> ELSE <<>>
       ELSE IF parent.zone_type = Some("Country") \/ geos = "voronoi_failed" THEN <<>>
       ELSE LET cells == [k \in 1..Len(places) |->
                             voronoi_cell(places, k, Unwrap(parent.boundary))]
                made == [k \in 1..Len(places) |->
                            with_bbox(extrude_existing_town(
                                [places[k] EXCEPT !.parent = Some(parent.id),
                                                  !.boundary =
                                                      IF geos = "back_conversion_failed"
                                                      THEN None ELSE Some(cells[k])],
                                towns, zs, geos)[1])]
            IN SeqFilter(made, {k \in 1..Len(places) : cells[k] # {}})

RECURSIVE SetToSeq(_)
\* the elements of a set of numbers in ascending order (BTreeMap iteration order)
SetToSeq(S) == IF S = {} THEN <<>> ELSE <<SetMin(S)>> \o SetToSeq(S \ {SetMin(S)})

RECURSIVE Flatten(_)
Flatten(ss) == IF ss = <<>> THEN <<>> ELSE Head(ss) \o Flatten(Tail(ss))

\* a publication that puts the new cities in front of the zones
publish_new_cities_front(zs, new_cities) ==
    [k \in 1..Len(new_cities) |-> [new_cities[k] EXCEPT !.id = Len(zs) + k - 1]] \o zs

\* a publication that leaves the place seeds their provisional ids
publish_new_cities_keep_id(zs, new_cities) == zs \o new_cities

\* publish_new_cities
publish_new_cities(zs, new_cities) ==
    zs \o [k \in 1..Len(new_cities) |-> [new_cities[k] EXCEPT !.id = Len(zs) + k - 1]]

\* candidate_parent_zones: for each place, the parent it is grouped under, if any
candidate_parent_zones(zs, place_zones) ==
    [k \in 1..Len(place_zones) |->
        LET p == IF place_zones[k].zone_type = None THEN None
                 ELSE get_parent(place_zones[k], zs)
        IN IF p # None /\ parent_accepted(ZoneAt(zs, Unwrap(p))) THEN p ELSE None]

compute_additional_cities(zs, nodes, geos) ==
    LET place_zones == read_places(nodes)
        parents == candidate_parent_zones(zs, place_zones)
        kept == {k \in 1..Len(place_zones) : parents[k] # None}
        keys == SetToSeq({Unwrap(parents[k]) : k \in kept})
        new_cities == [g \in 1..Len(keys) |->
                          compute_voronoi(keys[g],
                              SeqFilter(place_zones, {k \in kept : Unwrap(parents[k]) = keys[g]}),
                              zs, geos)]
    IN publish_new_cities(zs, Flatten(new_cities))

----------------------------------------------------------------------------
\* Names and labels. A String built by concatenation is the sequence of its
\* pieces: a name is one piece, a zip code a sequence of characters.

\* the name:<lang> tag keys and their language
NameLangKeys == {<<"name:fr", "fr">>, <<"name:de", "de">>}

\* k.starts_with("name:")
starts_with_name(k) == k = "name:" \/ \E e \in NameLangKeys : e[1] = k

\* LANG_NAME_REG.captures(k)?.get(1): the language of a key matching ^name:(.+)
LANG_NAME_REG(k) ==
    IF \E e \in NameLangKeys : e[1] = k
    THEN Some((CHOOSE e \in NameLangKeys : e[1] = k)[2])
    ELSE None

get_international_names(tags, default_name) ==
    {<<Unwrap(LANG_NAME_REG(t[1])), t[2]>> :
        t \in {u \in tags : LANG_NAME_REG(u[1]) # None /\ u[2] # default_name}}

\* an inheritance in which the center's names replace the zone's
inherit_center_names_insert(z) ==
    [z EXCEPT !.tags = {e \in @ : ~(starts_with_name(e[1]) /\ e[1] \in MapKeys(z.center_tags))}
                          \cup {e \in z.center_tags : starts_with_name(e[1])}]

\* center_names.for_each(|(k, v)| tags.entry(k).or_insert(v))
inherit_center_names(z) ==
    [z EXCEPT !.tags = @ \cup {e \in z.center_tags :
                                  starts_with_name(e[1]) /\ e[1] \notin MapKeys(z.tags)}]

\* Zone::compute_names
compute_names(z) ==
    LET named == IF \/ z.zone_type = Some(CITY)
                    \/ (z.wikidata # None /\ z.wikidata = MapGet(z.center_tags, "wikidata"))
                 THEN inherit_center_names(z) ELSE z
    IN [named EXCEPT !.international_names = get_international_names(named.tags, z.name)]

\* ZoneExt::compute_names
ZoneExt_compute_names(z) ==
    LET center_wikidata == MapGet(z.center_tags, "wikidata")
        named == IF \/ (z.wikidata # None /\ z.wikidata = center_wikidata)
                    \/ (z.zone_type = Some(CITY)
                        /\ (center_wikidata = None \/ z.wikidata = None))
                 THEN inherit_center_names(z) ELSE z
    IN [named EXCEPT !.international_names = get_international_names(named.tags, z.name)]

format_zip_code(zip_codes) ==
    IF Len(zip_codes) = 0 THEN <<>>
    ELSE IF Len(zip_codes) = 1 THEN <<" (">> \o zip_codes[1] \o <<")">>
    ELSE <<" (">> \o zip_codes[1] \o <<"-">> \o zip_codes[Len(zip_codes)] \o <<")">>

RECURSIVE iter_hierarchy(_, _)
\* HierarchyIterator: the zone, its parent, its grandparent, ...
iter_hierarchy(z, all_zones) ==
    <<z>> \o (IF z.parent = None THEN <<>>
              ELSE iter_hierarchy(ZoneAt(all_zones, Unwrap(z.parent)), all_zones))

RECURSIVE hierarchy_ends(_, _, _)
\* the HierarchyIterator started at z reaches a zone without parent within fuel
\* steps; otherwise it comes back to the zone being labelled, which
\* MutableSlice::get refuses with a panic, or it loops for ever
hierarchy_ends(z, all_zones, fuel) ==
    \/ z.parent = None
    \/ (fuel > 0 /\ hierarchy_ends(ZoneAt(all_zones, Unwrap(z.parent)), all_zones, fuel - 1))

RECURSIVE unique(_)
\* a collapse that drops every repetition, consecutive or not
unique(s) ==
    IF s = <<>> THEN s
    ELSE <<s[1]>> \o unique(SeqFilter(Tail(s), {k \in 1..(Len(s) - 1) : Tail(s)[k] # s[1]}))

RECURSIVE dedup(_)
\* Itertools::dedup: runs of consecutive equal elements are collapsed
dedup(s) ==
    IF Len(s) <= 1 THEN s
    ELSE IF s[1] = s[2] THEN dedup(Tail(s))
    ELSE <<s[1]>> \o dedup(Tail(s))

RECURSIVE join(_, _)
\* [String]::join
join(parts, sep) ==
    IF parts = <<>> THEN <<>>
    ELSE IF Len(parts) = 1 THEN parts[1]
    ELSE parts[1] \o sep \o join(Tail(parts), sep)

\* the closures given to create_lbl: the default name for no language, else
\* international_names.get(lang).unwrap_or(&z.name)
name_in(z, lang) ==
    IF lang = None THEN <<z.name>>
    ELSE <<unwrap_or(MapGet(z.international_names, Unwrap(lang)), z.name)>>

create_lbl(zone, all_zones, lang) ==
    LET h == iter_hierarchy(zone, all_zones)
        hierarchy == dedup([k \in 1..Len(h) |-> name_in(h[k], lang)])
    IN join(IF hierarchy = <<>> THEN hierarchy
            ELSE [hierarchy EXCEPT ![1] = @ \o format_zip_code(zone.zip_codes)],
            <<", ">>)

\* a labelling that forgets the language filter
compute_labels_unfiltered(zone, all_zones, langs) ==
    LET h == iter_hierarchy(zone, all_zones)
        all_lang == UNION {MapKeys(h[k].international_names) : k \in 1..Len(h)}
    IN [zone EXCEPT
           !.label = create_lbl(zone, all_zones, None),
           !.international_labels =
               {<<lang, create_lbl(zone, all_zones, Some(lang))>> : lang \in all_lang}]

\* ZoneExt::compute_labels
compute_labels(zone, all_zones, langs) ==
    LET h == iter_hierarchy(zone, all_zones)
        it == UNION {MapKeys(h[k].international_names) : k \in 1..Len(h)}
        all_lang == IF langs # <<>> THEN {n \in it : n \in SeqRange(langs)} ELSE it
    IN [zone EXCEPT
           !.label = create_lbl(zone, all_zones, None),
           !.international_labels =
               {<<lang, create_lbl(zone, all_zones, Some(lang))>> : lang \in all_lang}]

----------------------------------------------------------------------------
\* Inputs

\* the osm ids of the administrative relations, by position in the pbf
RelationOsmId == <<"relation:1", "relation:2", "relation:3", "relation:4", "relation:5">>
NodeOsmId == <<"node:1", "node:2", "node:3">>

\* Zone::from_osm_with_geom for the relation at position index of the pbf
NewZone(index, admin_level, boundary, tags) ==
    [id |-> index, osm_id |-> RelationOsmId[index + 1], admin_level |-> admin_level,
     zone_type |-> None, name |-> "Z", parent |-> None,
     boundary |-> Some(boundary), bbox |-> bounding_rect(boundary),
     center |-> None, tags |-> tags, is_generated |-> FALSE,
     label |-> <<>>, international_labels |-> {}, international_names |-> {},
     zip_codes |-> <<>>, center_tags |-> {}, wikidata |-> None]

\* get_zones_and_stats: the zone at position k of the vector has ZoneIndex k - 1
ZoneVectors(Levels, Boundaries, TagSets) ==
    {[k \in 1..MaxZones |-> NewZone(k - 1, a[k][1], a[k][2], a[k][3])] :
        a \in [1..MaxZones -> Levels \X Boundaries \X TagSets]}

Cells == {1, 2}

\* the place nodes of the pbf
NodeSeqs ==
    UNION {{[k \in 1..n |-> [osm_id |-> NodeOsmId[k], name |-> "P", center |-> c[k]]] :
               c \in [1..n -> Cells]} : n \in 0..MaxPlaces}

NoRules == [type_by_level |-> {}, overrides |-> [id_rules |-> {}, contained_by |-> {}]]

\* a rule file in the shape of libpostal's: levels, an id override and a
\* contained_by override
LuRules ==
    [type_by_level |-> {<<"2", "Country">>, <<"8", "City">>},
     overrides |->
        [id_rules |-> {<<"relation:2", Some("StateDistrict")>>},
         contained_by |->
            {<<"relation:1", [NoRules EXCEPT !.type_by_level = {<<"9", "Suburb">>}]>>}]]

----------------------------------------------------------------------------
\* create_ontology, step by step

FindInclusions ==
    /\ pc = "start"
    /\ inclusions' = find_inclusions(zones)
    /\ pc' = "included"
    /\ UNCHANGED <<zones, libpostal, countries_rules, country_code, stats, handed>>
    /\ UNCHANGED <<pbf, filter_langs, merger_files, id_offset, writer, cache_vars>>

\* type_zones
TypeZones ==
    /\ pc = "included"
    /\ LET typer == read_libpostal_yaml_folder(libpostal)
           finder == CountryFinder_from_iter(zones)
           codes == [i \in 1..Len(zones) |-> get_country_code(finder, zones[i], country_code)]
           zones_type == [i \in 1..Len(zones) |->
                             IF codes[i] = None THEN None
                             ELSE Some(get_zone_type(typer, zones[i], Unwrap(codes[i]),
                                                     inclusions[zones[i].id + 1], zones))]
       IN IF typer = {} \/ (country_code = None /\ finder.empty)
          THEN /\ pc' = "error"
               /\ UNCHANGED <<zones, countries_rules, stats, handed>>
          ELSE /\ countries_rules' = typer
               /\ handed' = codes
               /\ zones' = [i \in 1..Len(zones) |->
                               IF zones_type[i] # None /\ Unwrap(zones_type[i]).kind = "Ok"
                               THEN [zones[i] EXCEPT !.zone_type = Some(Unwrap(zones_type[i]).type)]
                               ELSE zones[i]]
               /\ stats' = record_zone_types(stats, zones_type)
               /\ pc' = "typed"
    /\ UNCHANGED <<inclusions, libpostal, country_code>>
    /\ UNCHANGED <<pbf, filter_langs, merger_files, id_offset, writer, cache_vars>>

BuildHierarchy ==
    /\ pc = "typed"
    /\ zones' = build_hierarchy(zones, inclusions)
    /\ pc' = "hierarchy"
    /\ UNCHANGED <<inclusions, libpostal, countries_rules, country_code, stats, handed>>
    /\ UNCHANGED <<pbf, filter_langs, merger_files, id_offset, writer, cache_vars>>

\* compute_additional_cities on the place nodes of the pbf
ComputeAdditionalCities ==
    /\ pc = "hierarchy"
    /\ \E nodes \in NodeSeqs :
           \* the geometry engine only runs when some place has a parent
           \E geos \in IF \A p \in SeqRange(candidate_parent_zones(zones, read_places(nodes))) :
                               p = None
                        THEN {"ok"} ELSE GeosOutcome :
               zones' = compute_additional_cities(zones, nodes, geos)
    /\ pc' = "augmented"
    /\ UNCHANGED <<inclusions, libpostal, countries_rules, country_code, stats, handed>>
    /\ UNCHANGED <<pbf, filter_langs, merger_files, id_offset, writer, cache_vars>>

\* disable_voronoi
SkipAdditionalCities ==
    /\ pc = "hierarchy"
    /\ pc' = "augmented"
    /\ UNCHANGED <<zones, inclusions, libpostal, countries_rules, country_code, stats, handed>>
    /\ UNCHANGED <<pbf, filter_langs, merger_files, id_offset, writer, cache_vars>>

\* a pruning that keeps the administrative zones only
clean_untagged_zones_admin_only(zs) == SeqFilter(zs, {k \in 1..Len(zs) : is_admin(zs[k])})

\* zones.iter_mut().for_each(|z| z.compute_names()), with either implementation
ComputeNames ==
    /\ pc = "augmented"
    /\ \/ zones' = [i \in 1..Len(zones) |-> compute_names(zones[i])]
       \/ zones' = [i \in 1..Len(zones) |-> ZoneExt_compute_names(zones[i])]
    /\ pc' = "named"
    /\ UNCHANGED <<inclusions, libpostal, countries_rules, country_code, stats, handed>>
    /\ UNCHANGED <<pbf, filter_langs, merger_files, id_offset, writer, cache_vars>>

\* compute_labels: a label reads the names, never the labels, of the other zones
ComputeLabels ==
    /\ pc = "named"
    /\ IF \A i \in 1..Len(zones) : hierarchy_ends(zones[i], zones, Len(zones))
       THEN /\ zones' = [i \in 1..Len(zones) |->
                            compute_labels(zones[i], zones, filter_langs)]
            /\ pc' = "labelled"
       ELSE /\ pc' = "panicked"
            /\ UNCHANGED zones
    /\ UNCHANGED <<inclusions, libpostal, countries_rules, country_code, stats, handed>>
    /\ UNCHANGED <<pbf, filter_langs, merger_files, id_offset, writer, cache_vars>>

clean_untagged_zones(zs) == SeqFilter(zs, {k \in 1..Len(zs) : zs[k].zone_type # None})

\* a create_ontology that prunes before the labels are computed
CleanUntaggedZones_before_labels ==
    /\ pc = "named"
    /\ zones' = clean_untagged_zones(zones)
    /\ zones' # zones
    /\ pc' = "named"
    /\ UNCHANGED <<inclusions, libpostal, countries_rules, country_code, stats, handed>>
    /\ UNCHANGED <<pbf, filter_langs, merger_files, id_offset, writer, cache_vars>>

CleanUntaggedZones ==
    /\ pc = "labelled"
    /\ zones' = clean_untagged_zones(zones)
    /\ pc' = "done"
    /\ UNCHANGED <<inclusions, libpostal, countries_rules, country_code, stats, handed>>
    /\ UNCHANGED <<pbf, filter_langs, merger_files, id_offset, writer, cache_vars>>

Next ==
    \/ FindInclusions
    \/ TypeZones
    \/ BuildHierarchy
    \/ ComputeAdditionalCities
    \/ SkipAdditionalCities
    \/ ComputeNames
    \/ ComputeLabels
    \/ CleanUntaggedZones

\* the state after get_zones_and_stats, whatever the zones
InitWithLangs(zs, files, code, langs) ==
    /\ zones = zs
    /\ inclusions = <<>>
    /\ libpostal = files
    /\ countries_rules = {}
    /\ country_code = code
    /\ stats = CosmogonyStats_default
    /\ handed = <<>>
    /\ pc = "start"
    /\ pbf = <<>>
    /\ filter_langs = langs
    /\ merger_files = <<>>
    /\ id_offset = 0
    /\ writer = <<>>
    /\ CacheUnused

\* the same without a language filter
InitWith(zs, files, code) == InitWithLangs(zs, files, code, <<>>)

\* zones of a few admin levels, some carrying a country code tag, typed by the
\* rules of one country
Init ==
    \E zs \in ZoneVectors({None, Some(2), Some(8)}, {{1}, {1, 2}},
                          {{}, {<<COUNTRY_CODE_TAG, <<"L", "U">>>>}}),
       code \in {None, Some(<<"l", "u">>), Some(<<"z", "z">>)} :
        InitWith(zs, {<<<<"l", "u">>, LuRules>>}, code)

Spec == Init /\ [][Next]_vars

\* the zone types the hierarchy is explored with: one per case of the order
TypeSample ==
    {None, Some("City"), Some("State"), Some("Country"), Some("NonAdministrative")}

\* zones typed at will by the id overrides of the rule file, over nested, equal
\* and disjoint boundaries
InitHier ==
    \E a \in [1..MaxZones -> TypeSample \X {{1}, {2}, {1, 2}}] :
        InitWith([k \in 1..MaxZones |-> NewZone(k - 1, None, a[k][2], {})],
                 {<<<<"l", "u">>,
                    [NoRules EXCEPT !.overrides.id_rules =
                        {<<RelationOsmId[k], a[k][1]>> : k \in 1..MaxZones}]>>},
                 Some(<<"l", "u">>))

SpecHier == InitHier /\ [][Next]_vars

\* the types of the zones around a place: below, at and above City, or none
PlaceTypeSample == {None, Some("Suburb"), Some("City"), Some("StateDistrict")}

\* zones of these types over nested, equal and disjoint boundaries
InitPlaces ==
    \E a \in [1..MaxZones -> PlaceTypeSample \X {{1}, {2}, {1, 2}}] :
        InitWith([k \in 1..MaxZones |-> NewZone(k - 1, None, a[k][2], {})],
                 {<<<<"l", "u">>,
                    [NoRules EXCEPT !.overrides.id_rules =
                        {<<RelationOsmId[k], a[k][1]>> : k \in 1..MaxZones}]>>},
                 Some(<<"l", "u">>))

SpecPlaces == InitPlaces /\ [][Next]_vars

NameSample == {"A", "B"}

\* zip codes as the reader leaves them: none, one, several
ZipSample == {<<>>, <<<<"1">>>>, <<<<"1">>, <<"2">>, <<"3">>>>}

\* the type a rule file gives the k-th zone of a chain: a city in a state in a country
ChainType(k) == IF k = 1 THEN Some("City") ELSE IF k = 2 THEN Some("State") ELSE Some("Country")

\* the boundaries of a chain of nested zones
ChainBoundary(k) == IF k = 1 THEN {1} ELSE {1, 2}

\* a chain of zones typed by id overrides
ChainInit(zs, langs) ==
    InitWithLangs(zs,
             {<<<<"l", "u">>,
                [NoRules EXCEPT !.overrides.id_rules =
                    {<<RelationOsmId[k], ChainType(k)>> : k \in 1..MaxZones}]>>},
             Some(<<"l", "u">>), langs)

\* named zones with zip codes along a chain
InitLabels ==
    \E a \in [1..MaxZones -> NameSample \X ZipSample] :
        ChainInit([k \in 1..MaxZones |->
                      [NewZone(k - 1, None, ChainBoundary(k), {})
                          EXCEPT !.name = a[k][1], !.zip_codes = a[k][2]]], <<>>)

SpecLabels == InitLabels /\ [][Next]_vars

\* what the reader leaves in name, tags, center_tags and wikidata of a zone
NameProfiles ==
    {[name |-> "A", tags |-> {}, center_tags |-> {}, wikidata |-> None],
     [name |-> "A", tags |-> {<<"name:fr", "F">>},
      center_tags |-> {<<"name:fr", "G">>, <<"name:de", "A">>}, wikidata |-> None],
     [name |-> "B", tags |-> {<<"name:fr", "F">>},
      center_tags |-> {<<"name:fr", "G">>, <<"name:de", "E">>, <<"wikidata", "Q1">>},
      wikidata |-> Some("Q1")],
     [name |-> "B", tags |-> {},
      center_tags |-> {<<"name:fr", "G">>, <<"wikidata", "Q2">>}, wikidata |-> Some("Q1")],
     [name |-> "A", tags |-> {<<"name:de", "D">>},
      center_tags |-> {<<"name:fr", "G">>, <<"wikidata", "Q2">>}, wikidata |-> None],
     [name |-> "B", tags |-> {<<"name:fr", "B">>},
      center_tags |-> {<<"name:", "N">>, <<"name:fr", "G">>}, wikidata |-> Some("Q1")]}

\* --filter-langs
LangsSample == {<<>>, <<"fr">>}

\* zones with names in several languages along a chain
InitNames ==
    \E a \in [1..MaxZones -> NameProfiles], langs \in LangsSample :
        ChainInit([k \in 1..MaxZones |->
                      [NewZone(k - 1, None, ChainBoundary(k), a[k].tags)
                          EXCEPT !.name = a[k].name, !.center_tags = a[k].center_tags,
                                 !.wikidata = a[k].wikidata]], langs)

SpecNames == InitNames /\ [][Next]_vars

\* rule sets nested under a contained_by key
NestedByLevel == [NoRules EXCEPT !.type_by_level = {<<"8", "State">>}]
NestedById ==
    [NoRules EXCEPT !.overrides.id_rules = {<<"relation:1", Some("Country")>>}]
NestedUntyped ==
    [NoRules EXCEPT !.type_by_level = {<<"8", "State">>},
                    !.overrides.id_rules = {<<"relation:1", None>>}]

LevelRuleSample == {{<<"8", "City">>}, {<<"0", "Suburb">>, <<"8", "City">>}}
IdRuleSample == {{}, {<<"relation:1", None>>}, {<<"relation:1", Some("CityDistrict")>>}}
ContainedBySample ==
    {{},
     {<<"relation:2", NestedByLevel>>},
     {<<"relation:2", NestedUntyped>>},
     {<<"relation:3", NestedByLevel>>},
     {<<"relation:2", NestedByLevel>>, <<"relation:3", NestedById>>},
     {<<"relation:2", NestedById>>, <<"relation:3", NestedByLevel>>}}

\* the rule files the typer is explored with
RuleSample ==
    {[type_by_level |-> t, overrides |-> [id_rules |-> r, contained_by |-> c]] :
        t \in LevelRuleSample, r \in IdRuleSample, c \in ContainedBySample}

\* zones with or without an admin level, typed by one country's rule file with id
\* and contained_by overrides
InitTyper ==
    \E zs \in ZoneVectors({None, Some(8)}, {{1}, {1, 2}}, {{}}), rules \in RuleSample :
        InitWith(zs, {<<<<"l", "u">>, rules>>}, Some(<<"l", "u">>))

SpecTyper == InitTyper /\ [][Next]_vars

\* zones of two admin levels, some tagged with the code of a country that has a
\* rule file, some with the code of one that has none
InitCountry ==
    \E zs \in ZoneVectors({Some(2), Some(4)}, {{1}, {1, 2}},
                          {{}, {<<COUNTRY_CODE_TAG, <<"L", "U">>>>},
                               {<<COUNTRY_CODE_TAG, <<"X", "X">>>>}}),
       code \in {None, Some(<<"l", "u">>)} :
        InitWith(zs, {<<<<"l", "u">>, LuRules>>}, code)

SpecCountry == InitCountry /\ [][Next]_vars

----------------------------------------------------------------------------
\* The reader: the zones built from the administrative relations of the pbf,
\* and the postcode assigner. A tag value that is split is a sequence of
\* characters.

\* the order of the characters of a zip code
CharOrd == ("0" :> 0) @@ ("1" :> 1) @@ ("2" :> 2) @@ ("3" :> 3)

RECURSIVE StrLe(_, _)
\* String's Ord: lexicographic
StrLe(a, b) ==
    IF a = <<>> THEN TRUE
    ELSE IF b = <<>> THEN FALSE
    ELSE IF Head(a) = Head(b) THEN StrLe(Tail(a), Tail(b))
    ELSE CharOrd[Head(a)] < CharOrd[Head(b)]

RECURSIVE split(_, _)
\* str::split: the pieces between the separators, empty pieces included
split(str, sep) ==
    IF \A k \in 1..Len(str) : str[k] # sep THEN <<str>>
    ELSE LET at == SetMin({k \in 1..Len(str) : str[k] = sep})
         IN <<SubSeq(str, 1, at - 1)>> \o split(SubSeq(str, at + 1, Len(str)), sep)

RECURSIVE sorted(_)
\* Itertools::sorted / Vec::sort on strings: stable, ascending, nothing removed
sorted(ss) ==
    IF ss = <<>> THEN <<>>
    ELSE LET n == Len(ss)
             front == sorted(SubSeq(ss, 1, n - 1))
             le == {k \in 1..Len(front) : StrLe(front[k], ss[n])}
             at == IF le = {} THEN 0 ELSE SetMax(le)
         IN SubSeq(front, 1, at) \o <<ss[n]>> \o SubSeq(front, at + 1, Len(front))

\* the zip codes read from addr:postcode, or else postal_code
zip_codes_of_tags(relation) ==
    LET zip_code == IF relation.addr_postcode # None THEN Unwrap(relation.addr_postcode)
                    ELSE IF relation.postal_code # None THEN Unwrap(relation.postal_code)
                    ELSE <<>>
        pieces == split(zip_code, ";")
    IN sorted(SeqFilter(pieces, {k \in 1..Len(pieces) : pieces[k] # <<>>}))

\* a filter that lets a postcode through from exactly 5% on
overlapping_postcodes_from_five(boundary, bbox, postcodes) ==
    LET kept == SeqFilter(postcodes,
                    {k \in 1..Len(postcodes) :
                        /\ BboxIntersects(Unwrap(bounding_rect(postcodes[k].boundary)), bbox)
                        /\ 100 * Cardinality(boundary \cap postcodes[k].boundary)
                               >= 5 * Cardinality(postcodes[k].boundary)})
    IN [k \in 1..Len(kept) |-> kept[k].zipcode]

\* the postcodes of the R-tree whose bbox meets the zone's and of whose area more
\* than 5% lies in the zone, in the order the tree yields them
overlapping_postcodes(boundary, bbox, postcodes) ==
    LET kept == SeqFilter(postcodes,
                    {k \in 1..Len(postcodes) :
                        /\ BboxIntersects(Unwrap(bounding_rect(postcodes[k].boundary)), bbox)
                        /\ 100 * Cardinality(boundary \cap postcodes[k].boundary)
                               > 5 * Cardinality(postcodes[k].boundary)})
    IN [k \in 1..Len(kept) |-> kept[k].zipcode]

\* refs.iter().find(|r| r.role == role)
find_role(refs, role) ==
    LET at == {k \in 1..Len(refs) : refs[k].role = role}
    IN IF at = {} THEN None ELSE Some(refs[SetMin(at)])

\* .and_then(|r| objects.get(&r.member)).and_then(|o| o.node())
resolve_node(ref, objects) ==
    IF ref = None THEN None
    ELSE IF MapGet(objects, Unwrap(ref).member) = None THEN None
    ELSE IF MapAt(objects, Unwrap(ref).member).is_node
         THEN MapGet(objects, Unwrap(ref).member) ELSE None

\* find(admin_centre).or_else(find(label)) and then the node it resolves to
osm_center(relation, objects) ==
    resolve_node(IF find_role(relation.refs, "admin_centre") # None
                 THEN find_role(relation.refs, "admin_centre")
                 ELSE find_role(relation.refs, "label"),
                 objects)

\* b.centroid().filter(not NaN): a point of the boundary stands for the centroid
centroid(relation) ==
    IF relation.boundary = None \/ relation.broken THEN None
    ELSE Some(SetMin(Unwrap(relation.boundary)))

\* the tags of the relation and the name:* tags of its label node it lacks
tags_with_label(relation, objects) ==
    LET label_node == resolve_node(find_role(relation.refs, "label"), objects)
    IN relation.tags \cup
           (IF label_node = None THEN {}
            ELSE {e \in Unwrap(label_node).tags :
                     starts_with_name(e[1]) /\ e[1] \notin MapKeys(relation.tags)})

\* Zone::from_osm
from_osm(relation, objects, index) ==
    IF relation.name = None THEN None
    ELSE Some([id |-> index, osm_id |-> RelationOsmId[relation.id],
               admin_level |-> relation.admin_level, zone_type |-> None,
               name |-> Unwrap(relation.name), parent |-> None,
               boundary |-> None, bbox |-> None, center |-> None,
               tags |-> tags_with_label(relation, objects), is_generated |-> FALSE,
               label |-> <<>>, international_labels |-> {}, international_names |-> {},
               zip_codes |-> zip_codes_of_tags(relation), center_tags |-> {},
               wikidata |-> relation.wikidata])

\* Zone::from_osm_with_geom
from_osm_with_geom(relation, objects, index) ==
    IF from_osm(relation, objects, index) = None THEN None
    ELSE LET center == osm_center(relation, objects)
         IN Some([Unwrap(from_osm(relation, objects, index)) EXCEPT
                !.boundary = relation.boundary,
                !.bbox = IF relation.boundary = None THEN None
                         ELSE bounding_rect(Unwrap(relation.boundary)),
                !.center = IF center = None THEN centroid(relation)
                           ELSE Some(Unwrap(center).center),
                !.center_tags = IF center = None THEN {} ELSE Unwrap(center).tags])

\* ZoneExt::from_osm_relation: as from_osm_with_geom, and empty zip codes are
\* filled from the postcodes
from_osm_relation(relation, objects, index, postcodes) ==
    LET z == from_osm_with_geom(relation, objects, index)
    IN IF z = None THEN None
       ELSE IF Unwrap(z).boundary # None /\ Unwrap(z).bbox # None /\ Unwrap(z).zip_codes = <<>>
       THEN Some([Unwrap(z) EXCEPT !.zip_codes =
                     overlapping_postcodes(Unwrap(Unwrap(z).boundary), Unwrap(Unwrap(z).bbox),
                                           postcodes)])
       ELSE z

RECURSIVE get_zones(_, _, _, _, _)
\* the loop of get_zones_and_stats over the administrative relations: a zone
\* takes the index zones.len() and is pushed when it has a boundary; ext tells
\* which of the two constructors builds it
get_zones(relations, objects, postcodes, zs, ext) ==
    IF relations = <<>> THEN zs
    ELSE LET z == IF ext THEN from_osm_relation(Head(relations), objects, Len(zs), postcodes)
                  ELSE from_osm_with_geom(Head(relations), objects, Len(zs))
         IN get_zones(Tail(relations), objects, postcodes,
                      IF z # None /\ Unwrap(z).boundary # None THEN Append(zs, Unwrap(z))
                      ELSE zs,
                      ext)

\* one zone of assign_postcodes_to_zones
assign_postcodes(z, postcodes) ==
    IF z.boundary # None /\ z.bbox # None /\ z.zip_codes = <<>>
    THEN [z EXCEPT !.zip_codes =
             sorted(overlapping_postcodes(Unwrap(z.boundary), Unwrap(z.bbox), postcodes))]
    ELSE z

\* get_zones_and_stats, with Zone::from_osm_with_geom or ZoneExt::from_osm_relation
GetZonesAndStats ==
    /\ pc = "parsed"
    /\ \/ zones' = get_zones(pbf.relations, pbf.objects, pbf.postcodes, <<>>, FALSE)
       \/ zones' = get_zones(pbf.relations, pbf.objects, pbf.postcodes, <<>>, TRUE)
    /\ stats' = CosmogonyStats_default
    /\ pc' = "read"
    /\ UNCHANGED <<inclusions, libpostal, countries_rules, country_code, handed>>
    /\ UNCHANGED <<pbf, filter_langs, merger_files, id_offset, writer, cache_vars>>

\* assign_postcodes_to_zones; the stages between the reader and the assigner
\* leave boundary, bbox and zip_codes as they are
AssignPostcodes ==
    /\ pc = "read"
    /\ zones' = [i \in 1..Len(zones) |-> assign_postcodes(zones[i], pbf.postcodes)]
    /\ pc' = "postcoded"
    /\ UNCHANGED <<inclusions, libpostal, countries_rules, country_code, stats, handed>>
    /\ UNCHANGED <<pbf, filter_langs, merger_files, id_offset, writer, cache_vars>>

NextRead ==
    \/ GetZonesAndStats
    \/ AssignPostcodes

\* the objects the members of a relation may point at: two nodes and a way;
\* member 14 is not in the pbf
ObjectSample ==
    {<<11, [is_node |-> TRUE, center |-> 1,
            tags |-> {<<"name:fr", "G">>, <<"wikidata", "Q1">>}]>>,
     <<12, [is_node |-> TRUE, center |-> 2, tags |-> {<<"name:de", "E">>}]>>,
     <<13, [is_node |-> FALSE, center |-> 1, tags |-> {}]>>}

Ref(role, member) == [role |-> role, member |-> member]

\* the members of a relation: no center, either, both in either order, and an
\* admin_centre that is a way or is missing beside a label node
RefsSample ==
    {<<Ref("outer", 13)>>,
     <<Ref("outer", 13), Ref("admin_centre", 11)>>,
     <<Ref("outer", 13), Ref("label", 12)>>,
     <<Ref("admin_centre", 11), Ref("label", 12)>>,
     <<Ref("label", 12), Ref("admin_centre", 11)>>,
     <<Ref("admin_centre", 13), Ref("label", 12)>>,
     <<Ref("admin_centre", 14), Ref("label", 12)>>}

\* <<addr:postcode, postal_code>>: absent, unsorted, repeated, with empty
\* pieces, an empty addr:postcode before a postal_code
ZipTagSample ==
    {<<None, None>>,
     <<Some(<<"2", ";", "1">>), None>>,
     <<Some(<<"1", ";", "1">>), None>>,
     <<None, Some(<<";", "1", "0", ";">>)>>,
     <<Some(<<>>), Some(<<"1">>)>>}

\* <<boundary, broken>>: the boundary build_boundary returns, and whether its
\* centroid is NaN
BoundarySample == {<<Some({1}), FALSE>>, <<Some({1, 2}), TRUE>>, <<None, FALSE>>}

Postcode(zipcode, boundary) == [zipcode |-> zipcode, boundary |-> boundary]

\* the postal code relations of the pbf, in the order the R-tree yields them
PostcodeSample ==
    {<<>>,
     <<Postcode(<<"2">>, {1}), Postcode(<<"1">>, {1, 2})>>,
     <<Postcode(<<"1">>, {1}), Postcode(<<"1">>, {2})>>}

\* an administrative relation
Relation(id, name, zip, b, refs) ==
    [id |-> id, name |-> name, admin_level |-> Some(8),
     addr_postcode |-> zip[1], postal_code |-> zip[2],
     wikidata |-> None, tags |-> {}, boundary |-> b[1], broken |-> b[2], refs |-> refs]

\* a pbf of one administrative relation, alone or after a relation without name
InitRead ==
    /\ \E zip \in ZipTagSample, b \in BoundarySample, refs \in RefsSample,
          postcodes \in PostcodeSample, skipped \in BOOLEAN :
           pbf = [relations |->
                      IF skipped
                      THEN <<Relation(1, None, <<None, None>>, <<Some({1}), FALSE>>,
                                      <<Ref("outer", 13)>>),
                             Relation(2, Some("Z"), zip, b, refs)>>
                      ELSE <<Relation(1, Some("Z"), zip, b, refs)>>,
                  objects |-> ObjectSample,
                  postcodes |-> postcodes]
    /\ zones = <<>>
    /\ pc = "parsed"
    /\ inclusions = <<>>
    /\ libpostal = {}
    /\ countries_rules = {}
    /\ country_code = None
    /\ stats = CosmogonyStats_default
    /\ handed = <<>>
    /\ filter_langs = <<>>
    /\ merger_files = <<>>
    /\ id_offset = 0
    /\ writer = <<>>
    /\ CacheUnused

SpecRead == InitRead /\ [][NextRead]_vars

----------------------------------------------------------------------------
\* The merger of streamed cosmogonies. A file is readable or not; a line of a
\* readable file parses to a zone or fails to.

get_updated_id(idx, offset) == idx + offset

\* an update that shifts the id and forgets the parent
update_zone_id_only(z, offset) == [z EXCEPT !.id = get_updated_id(@, offset)]

\* the closure mapped over the zones in read_cosmogony
update_zone(z, offset) ==
    [z EXCEPT !.id = get_updated_id(@, offset),
              !.parent = IF @ = None THEN None
                         ELSE Some(get_updated_id(Unwrap(@), offset))]

\* .filter_map(|z| z.ok())
parsed_zones(file) ==
    LET oks == SeqFilter(file.lines, {k \in 1..Len(file.lines) : file.lines[k].ok})
    IN [k \in 1..Len(oks) |-> oks[k].zone]

RECURSIVE fold_max(_, _)
\* max_id = std::cmp::max(max_id, z.id.index) over the updated zones
fold_max(max_id, zs) ==
    IF zs = <<>> THEN max_id
    ELSE fold_max(IF Head(zs).id > max_id THEN Head(zs).id ELSE max_id, Tail(zs))

\* read_cosmogony: <<the zones written, the id_offset afterwards>>
read_cosmogony(file, offset) ==
    LET zs == [k \in 1..Len(parsed_zones(file)) |-> update_zone(parsed_zones(file)[k], offset)]
    IN <<zs, fold_max(0, zs) + 1>>

\* one turn of the loop of merge_cosmogony
ReadCosmogony ==
    /\ pc = "merging"
    /\ merger_files # <<>>
    /\ IF Head(merger_files).readable
       THEN /\ writer' = writer \o read_cosmogony(Head(merger_files), id_offset)[1]
            /\ id_offset' = read_cosmogony(Head(merger_files), id_offset)[2]
            /\ pc' = pc
       ELSE /\ pc' = "merge_failed"
            /\ UNCHANGED <<writer, id_offset>>
    /\ merger_files' = Tail(merger_files)
    /\ UNCHANGED <<zones, inclusions, libpostal, countries_rules, country_code, stats,
                   handed, pbf, filter_langs, cache_vars>>

\* the loop of merge_cosmogony is over
MergeDone ==
    /\ pc = "merging"
    /\ merger_files = <<>>
    /\ pc' = "merged"
    /\ UNCHANGED <<zones, inclusions, libpostal, countries_rules, country_code, stats,
                   handed, pbf, filter_langs, merger_files, id_offset, writer, cache_vars>>

NextMerger ==
    \/ ReadCosmogony
    \/ MergeDone

MergedZone(id, parent) == [id |-> id, parent |-> parent, name |-> "Z"]
OkLine(z) == [ok |-> TRUE, zone |-> z]
ErrLine == [ok |-> FALSE, zone |-> MergedZone(0, None)]

\* files whose ids are unique: empty, unparseable, in and out of id order, with
\* a gap in the ids, unreadable
FileSample ==
    {[readable |-> TRUE, lines |-> <<>>],
     [readable |-> TRUE, lines |-> <<ErrLine>>],
     [readable |-> TRUE, lines |-> <<OkLine(MergedZone(0, None))>>],
     [readable |-> TRUE, lines |-> <<OkLine(MergedZone(0, None)), ErrLine,
                                     OkLine(MergedZone(1, Some(0)))>>],
     [readable |-> TRUE, lines |-> <<OkLine(MergedZone(2, None)),
                                     OkLine(MergedZone(0, Some(2)))>>],
     [readable |-> FALSE, lines |-> <<>>]}

\* CosmogonyMerger::default() and the files of the command line
InitMerger ==
    /\ \E n \in 0..MaxFiles : merger_files \in [1..n -> FileSample]
    /\ id_offset = 0
    /\ writer = <<>>
    /\ CacheUnused
    /\ pc = "merging"
    /\ zones = <<>>
    /\ inclusions = <<>>
    /\ libpostal = {}
    /\ countries_rules = {}
    /\ country_code = None
    /\ stats = CosmogonyStats_default
    /\ handed = <<>>
    /\ pbf = <<>>
    /\ filter_langs = <<>>

SpecMerger == InitMerger /\ [][NextMerger]_vars

----------------------------------------------------------------------------
\* Properties of the hierarchy

Positions == 1..Len(zones)
ParentOf(i) == ZoneAt(zones, Unwrap(zones[i].parent))
HierarchyBuilt == pc \in {"hierarchy", "augmented", "named", "labelled"}

RECURSIVE ChainEnds(_, _)
\* following parent from position i reaches a root within n steps
ChainEnds(i, n) ==
    \/ zones[i].parent = None
    \/ n > 0 /\ ChainEnds(Unwrap(zones[i].parent) + 1, n - 1)

\* C2: after build_hierarchy and compute_additional_cities the parent pointers form
\* a forest: no walk along parent comes back to a zone it has visited.
C2_ParentForest ==
    HierarchyBuilt => \A i \in Positions : ChainEnds(i, Len(zones))

\* two zones that contain each other, one of them with a parent
C2_Witness ==
    /\ pc = "augmented"
    /\ \E i, j \in 1..Len(inclusions) :
        /\ i # j
        /\ zones[j].id \in SeqRange(inclusions[i])
        /\ zones[i].id \in SeqRange(inclusions[j])
        /\ is_admin(zones[i]) /\ is_admin(zones[j])
        /\ zones[i].parent # None
    /\ \E g \in Positions : zones[g].is_generated

\* the candidates of inclusions[i] the zone at position i can be a child of
Qualifying(i) ==
    {c \in SeqRange(inclusions[i]) :
        /\ ZoneAt(zones, c).zone_type \notin {None, Some("NonAdministrative")}
        /\ \/ zones[i].zone_type \in {None, Some("NonAdministrative")}
           \/ ZoneTypeOrd[Unwrap(zones[i].zone_type)]
                  < ZoneTypeOrd[Unwrap(ZoneAt(zones, c).zone_type)]}

\* C3: build_hierarchy gives zone i a qualifying candidate of inclusions[i] whose
\* zone_type is the smallest among the qualifying ones, and no parent exactly when
\* no candidate qualifies.
C3_SmallestQualifyingParent ==
    pc = "hierarchy" =>
        \A i \in Positions :
            IF Qualifying(i) = {} THEN zones[i].parent = None
            ELSE /\ zones[i].parent # None
                 /\ Unwrap(zones[i].parent) \in Qualifying(i)
                 /\ \A c \in Qualifying(i) :
                        ZoneTypeOrd[Unwrap(ParentOf(i).zone_type)]
                            <= ZoneTypeOrd[Unwrap(ZoneAt(zones, c).zone_type)]

\* an untyped zone attached to the smaller of two qualifying containers, listed
\* after the larger one, next to a zone left without parent although contained
C3_Witness ==
    /\ pc = "hierarchy"
    /\ \E i \in Positions :
        /\ zones[i].zone_type = None
        /\ Cardinality(Qualifying(i)) >= 2
        /\ \E c \in Qualifying(i) :
               /\ ZoneAt(zones, c).zone_type # ParentOf(i).zone_type
               /\ c < Unwrap(zones[i].parent)
    /\ \E j \in Positions : inclusions[j] # <<>> /\ zones[j].parent = None

----------------------------------------------------------------------------
\* Properties of the pruning

\* the positions of the typed zones
Typed(zs) == {k \in 1..Len(zs) : zs[k].zone_type # None}

\* the position of the j-th typed zone
NthTyped(zs, j) ==
    CHOOSE k \in Typed(zs) : Cardinality({m \in Typed(zs) : m <= k}) = j

\* C4: clean_untagged_zones removes exactly the zones whose zone_type is None and
\* keeps all others in their previous relative order with every field unchanged,
\* so that every zone left has a zone_type.
C4_PruneExactlyUntyped ==
    [][pc = "labelled" =>
          /\ Len(zones') = Cardinality(Typed(zones))
          /\ \A j \in 1..Len(zones') : zones'[j] = zones[NthTyped(zones, j)]
          /\ \A j \in 1..Len(zones') : zones'[j].zone_type # None]_vars

\* a pruned vector that lost an untyped zone lying before a zone it kept, and kept
\* a NonAdministrative zone and a generated city
C4_Witness ==
    /\ pc = "done"
    /\ \E j \in Positions : zones[j].id >= j /\ ~zones[j].is_generated
    /\ \E j \in Positions : zones[j].zone_type = Some("NonAdministrative")
    /\ \E j \in Positions : zones[j].is_generated

\* C5: after pruning, the parent id of every surviving zone is the id of exactly one
\* surviving zone, and that zone is the one that was its parent before pruning.
C5_ParentsSurvivePruning ==
    [][pc = "labelled" =>
          \A j \in 1..Len(zones') :
              zones'[j].parent # None =>
                  LET named == {m \in 1..Len(zones') : zones'[m].id = Unwrap(zones'[j].parent)}
                  IN /\ Cardinality(named) = 1
                     /\ \A m \in named : zones'[m] = ZoneAt(zones, Unwrap(zones'[j].parent))]_vars

\* a pruned vector that lost a zone and in which an original zone and a generated
\* city still name their parent, the parent not being at the position of its id
C5_Witness ==
    /\ pc = "done"
    /\ \E j, m \in Positions :
        /\ ~zones[j].is_generated
        /\ zones[j].parent = Some(zones[m].id)
        /\ zones[m].id # m - 1
    /\ \E g \in Positions : zones[g].is_generated /\ zones[g].parent # None

----------------------------------------------------------------------------
\* Properties of the typing

\* the rule set of the country handed to the typer for the zone at position i
RulesOf(i) == MapAt(countries_rules, Unwrap(handed[i]))
HasRules(i) == handed[i] # None /\ Unwrap(handed[i]) \in MapKeys(countries_rules)

\* the key a zone's admin_level is looked up under
LevelKey(z) ==
    IF z.admin_level = None THEN "0" ELSE u32_to_string[Unwrap(z.admin_level)]

\* the type a rule set's type_by_level gives a zone, if any
LevelType(rules, z) ==
    IF \E e \in rules.type_by_level : e[1] = LevelKey(z)
    THEN Some((CHOOSE e \in rules.type_by_level : e[1] = LevelKey(z))[2])
    ELSE None

IdRuled(rules, z) == \E e \in rules.overrides.id_rules : e[1] = z.osm_id

\* the positions in inclusions[i] of the zones whose osm_id is a contained_by key
Matches(i) ==
    {k \in 1..Len(inclusions[i]) :
        \E e \in RulesOf(i).overrides.contained_by :
            e[1] = ZoneAt(zones, inclusions[i][k]).osm_id}

\* the nested rule set selected by the zone at position k of inclusions[i]
NestedAt(i, k) ==
    (CHOOSE e \in RulesOf(i).overrides.contained_by :
         e[1] = ZoneAt(zones, inclusions[i][k]).osm_id)[2]

\* the result of a nested rule set that has no contained_by rules of its own
NestedResult(rules, z) ==
    IF IdRuled(rules, z)
    THEN (CHOOSE e \in rules.overrides.id_rules : e[1] = z.osm_id)[2]
    ELSE LevelType(rules, z)

\* C6: when the rule set's id_rules has a key for the zone's osm_id, the zone gets
\* that rule's value, "no type" included, whatever its admin_level and whatever
\* contained_by rules match its ancestors.
C6_IdRuleWins ==
    pc = "typed" =>
        \A i \in Positions :
            HasRules(i) =>
                \A e \in RulesOf(i).overrides.id_rules :
                    e[1] = zones[i].osm_id => zones[i].zone_type = e[2]

\* a zone left untyped by its id rule although its admin level has a type and one of
\* its ancestors has a contained_by rule that would give it another
C6_Witness ==
    /\ pc = "typed"
    /\ \E i \in Positions :
        /\ HasRules(i)
        /\ <<zones[i].osm_id, None>> \in RulesOf(i).overrides.id_rules
        /\ zones[i].zone_type = None
        /\ LevelType(RulesOf(i), zones[i]) # None
        /\ Matches(i) # {}
        /\ NestedResult(NestedAt(i, SetMin(Matches(i))), zones[i]) = Some("State")

RECURSIVE SumCounts(_)
\* the sum of the counts of a counter map
SumCounts(m) ==
    IF m = {} THEN 0
    ELSE LET e == CHOOSE x \in m : TRUE IN e[2] + SumCounts(m \ {e})

RECURSIVE SumCounts2(_)
\* the sum of the counts of a map of counter maps
SumCounts2(m) ==
    IF m = {} THEN 0
    ELSE LET e == CHOOSE x \in m : TRUE IN SumCounts(e[2]) + SumCounts2(m \ {e})

TypingDone == pc \in {"typed", "hierarchy", "augmented", "named", "labelled"}

\* the zones read from the pbf
Originals == {i \in Positions : ~zones[i].is_generated}

\* C8: once type_zones has run, every zone left without zone_type is counted once in
\* exactly one of zone_without_country, zone_with_unkwown_country_rules and
\* unhandled_admin_level, and stays in the vector until the pruning.
C8_UntypedZonesCounted ==
    TypingDone =>
        /\ stats.zone_without_country
               = Cardinality({i \in Originals : handed[i] = None})
        /\ SumCounts(stats.zone_with_unkwown_country_rules)
               = Cardinality({i \in Originals : handed[i] # None /\ ~HasRules(i)})
        /\ SumCounts2(stats.unhandled_admin_level)
               = Cardinality({i \in Originals : HasRules(i) /\ zones[i].zone_type = None})
        /\ Cardinality({i \in Positions : zones[i].zone_type = None})
               = stats.zone_without_country
                 + SumCounts(stats.zone_with_unkwown_country_rules)
                 + SumCounts2(stats.unhandled_admin_level)
        /\ \A i \in 1..Len(handed) : zones[i].id = i - 1

\* a typing that left two zones untyped for the same unknown country next to a
\* zone without country
C8_Witness ==
    /\ pc = "typed"
    /\ stats.zone_without_country >= 1
    /\ \E e \in stats.zone_with_unkwown_country_rules : e[2] >= 2

----------------------------------------------------------------------------
\* Properties of the country of a zone

\* C9: the country code handed to the typer for a zone is upper-case, whether it is
\* the user's or the country finder's.
C9_HandedCodeUpperCase ==
    \A i \in 1..Len(handed) :
        handed[i] # None => to_uppercase(Unwrap(handed[i])) = Unwrap(handed[i])

\* the tag of a zone that carries a country code for which the corpus has rules
CountryTag(z) == (CHOOSE e \in z.tags : e[1] = COUNTRY_CODE_TAG)[2]
IsKnownCountry(z) ==
    /\ \E e \in z.tags : e[1] = COUNTRY_CODE_TAG
    /\ \E e \in countries_rules : e[1] = to_uppercase(CountryTag(z))

\* the positions of the known countries that contain the zone at position i, the
\* zone itself included
CountriesAround(i) ==
    {k \in Positions :
        /\ IsKnownCountry(zones[k])
        /\ Unwrap(zones[i].boundary) \subseteq Unwrap(zones[k].boundary)}

\* C10: without user code the country of a zone is, letter case aside, the code of
\* a zone of largest admin_level among the zones containing it that carry the
\* country code tag and have a rule set in the corpus, and none when there is no
\* such zone; a user code is used for every zone.
C10_CountryOfHighestKnownLevel ==
    pc = "typed" =>
        \A i \in Positions :
            IF country_code # None
            THEN handed[i] # None
                 /\ to_uppercase(Unwrap(handed[i])) = to_uppercase(Unwrap(country_code))
            ELSE IF CountriesAround(i) = {} THEN handed[i] = None
            ELSE /\ handed[i] # None
                 /\ \E k \in CountriesAround(i) :
                        /\ \A m \in CountriesAround(i) :
                               unwrap_or(zones[m].admin_level, 0)
                                   <= unwrap_or(zones[k].admin_level, 0)
                        /\ to_uppercase(Unwrap(handed[i]))
                               = to_uppercase(CountryTag(zones[k]))

----------------------------------------------------------------------------
\* C17: once compute_additional_cities has run, every zone it appended has a
\* parent, and that parent's type is strictly greater than City and strictly
\* smaller than Country: no generated city hangs under a Country.
C17_GeneratedCityParentBelowCountry ==
    HierarchyBuilt =>
        \A g \in Positions :
            zones[g].is_generated =>
                /\ zones[g].parent # None
                /\ ParentOf(g).zone_type # None
                /\ ZoneTypeOrd[Unwrap(ParentOf(g).zone_type)] > ZoneTypeOrd["City"]
                /\ ZoneTypeOrd[Unwrap(ParentOf(g).zone_type)] < ZoneTypeOrd["Country"]

\* a city is generated under a State while a Country zone also covers the place
C17_Witness ==
    /\ pc = "augmented"
    /\ \E g, c \in Positions :
        /\ zones[g].is_generated
        /\ zones[g].parent # None
        /\ zones[c].zone_type = Some("Country")
        /\ contains_center(zones[c], zones[g])

----------------------------------------------------------------------------
RECURSIVE ChainOf(_)
\* the position i, then the position of its parent, of its grandparent, ...
ChainOf(i) ==
    <<i>> \o (IF zones[i].parent = None THEN <<>> ELSE ChainOf(Unwrap(zones[i].parent) + 1))

\* the names, in the language lang where a zone has one, of the zones along the
\* parent chain of position i; lang "" asks for the default names
NamesAlong(i, lang) ==
    [k \in 1..Len(ChainOf(i)) |->
        LET z == zones[ChainOf(i)[k]]
        IN IF \E e \in z.international_names : e[1] = lang
           THEN (CHOOSE e \in z.international_names : e[1] = lang)[2]
           ELSE z.name]

\* the names with every name equal to its predecessor left out
Collapsed(names) == SeqFilter(names, {k \in 1..Len(names) : k = 1 \/ names[k] # names[k - 1]})

ZipSummary(zips) ==
    CASE Len(zips) = 0 -> <<>>
      [] Len(zips) = 1 -> <<" (">> \o zips[1] \o <<")">>
      [] OTHER -> <<" (">> \o zips[1] \o <<"-">> \o zips[Len(zips)] \o <<")">>

\* the first name, the zip summary, then ", " and a name for every further name
Composed(names, zips) ==
    <<names[1]>> \o ZipSummary(zips)
        \o Flatten([k \in 1..(Len(names) - 1) |-> <<", ", names[k + 1]>>])

\* C12: compute_labels sets the label of every zone to the names along its
\* parent chain from the zone itself, consecutive equal names collapsed and
\* non-consecutive repetitions kept, joined by ", ", the first name followed by
\* the summary of the zone's own zip codes (none: nothing, one: " (code)",
\* several: " (first-last)").
C12_LabelAlongParentChain ==
    pc = "labelled" =>
        \A i \in Positions :
            zones[i].label = Composed(Collapsed(NamesAlong(i, "")), zones[i].zip_codes)

\* a chain A, B, A below a zone with several zip codes whose parent has zip
\* codes of its own
C12_Witness ==
    /\ pc = "labelled"
    /\ \E i \in Positions :
        /\ Len(zones[i].zip_codes) > 1
        /\ zones[i].parent # None
        /\ ParentOf(i).zip_codes # <<>>
        /\ ParentOf(i).parent # None
        /\ zones[i].name # ParentOf(i).name
        /\ ZoneAt(zones, Unwrap(ParentOf(i).parent)).name = zones[i].name

----------------------------------------------------------------------------
\* the languages named along the parent chain of position i
LangsAlong(i) ==
    UNION {MapKeys(zones[ChainOf(i)[k]].international_names) : k \in 1..Len(ChainOf(i))}

\* C13: after compute_labels the languages of a zone's international_labels are
\* those of the international_names of the zone and of its ancestors, restricted
\* to filter_langs when it is not empty; the label of a language is composed as
\* the default label from each level's name in that language, or from its
\* default name where it has none.
C13_InternationalLabelsAlongChain ==
    pc = "labelled" =>
        \A i \in Positions :
            /\ MapKeys(zones[i].international_labels) =
                   IF filter_langs = <<>> THEN LangsAlong(i)
                   ELSE LangsAlong(i) \cap SeqRange(filter_langs)
            /\ \A e \in zones[i].international_labels :
                   e[2] = Composed(Collapsed(NamesAlong(i, e[1])), zones[i].zip_codes)

\* with a filter set, a zone gets a label in a language only an ancestor names,
\* and a language of its chain is filtered out
C13_Witness ==
    /\ pc = "labelled"
    /\ filter_langs # <<>>
    /\ \E i \in Positions :
        /\ \E e \in zones[i].international_labels :
               e[1] \notin MapKeys(zones[i].international_names)
        /\ LangsAlong(i) \ SeqRange(filter_langs) # {}

----------------------------------------------------------------------------
\* the name:<lang> tags among tags
NameTags(tags) == {e \in tags : \E l \in NameLangKeys : l[1] = e[1]}

CenterWikidata(z) ==
    IF \E e \in z.center_tags : e[1] = "wikidata"
    THEN Some((CHOOSE e \in z.center_tags : e[1] = "wikidata")[2])
    ELSE None

SameWikidataAsCenter(z) == z.wikidata # None /\ z.wikidata = CenterWikidata(z)

DistinctFromCenter(z) ==
    z.wikidata # None /\ CenterWikidata(z) # None /\ z.wikidata # CenterWikidata(z)

\* position i keeps its tags and gains the name:<lang> tags of its center it lacks
InheritsCenterNames(i) ==
    /\ zones[i].tags \subseteq zones'[i].tags
    /\ \A e \in zones'[i].tags : \A f \in zones'[i].tags : e[1] = f[1] => e = f
    /\ \A e \in NameTags(zones[i].center_tags) :
           e[1] \notin MapKeys(zones[i].tags) => e \in zones'[i].tags

\* international_names are the name:<lang> tags that differ from the default name
NamesHarvested(i) ==
    zones'[i].international_names =
        {<<(CHOOSE l \in NameLangKeys : l[1] = e[1])[2], e[2]>> :
            e \in {f \in NameTags(zones'[i].tags) : f[2] # zones[i].name}}

\* C14 as stated: compute_names makes every City zone, and every zone whose
\* wikidata equals its center's, inherit the name:<lang> tags of center_tags it
\* lacks, overwriting none, then harvests international_names.
C14_EveryCityInherits ==
    [][pc = "augmented" /\ pc' = "named" =>
          \A i \in Positions :
              /\ (zones[i].zone_type = Some("City") \/ SameWikidataAsCenter(zones[i]))
                     => InheritsCenterNames(i)
              /\ NamesHarvested(i)]_vars

\* C14: compute_names makes every zone whose wikidata equals its center's, and
\* every City zone whose wikidata and center wikidata are not both present and
\* different, inherit the name:<lang> tags of center_tags it lacks, overwriting
\* none; a zone that is neither a City nor of its center's wikidata keeps its
\* tags; international_names are then the name:<lang> tags whose value differs
\* from the default name.
C14_CityInheritsUnlessDistinct ==
    [][pc = "augmented" /\ pc' = "named" =>
          \A i \in Positions :
              /\ (\/ SameWikidataAsCenter(zones[i])
                  \/ (zones[i].zone_type = Some("City") /\ ~DistinctFromCenter(zones[i])))
                     => InheritsCenterNames(i)
              /\ (~SameWikidataAsCenter(zones[i]) /\ zones[i].zone_type # Some("City"))
                     => zones'[i].tags = zones[i].tags
              /\ zones[i].tags \subseteq zones'[i].tags
              /\ NamesHarvested(i)]_vars

\* names were computed for a City whose wikidata differs from its center's, for
\* a zone that inherited a name and kept another against its center's, and for
\* a zone of another type that shares its center's wikidata
C14_Witness ==
    /\ pc = "named"
    /\ \E i \in Positions :
        /\ zones[i].zone_type = Some("City")
        /\ DistinctFromCenter(zones[i])
    /\ \E i \in Positions :
        /\ \E e \in NameTags(zones[i].center_tags) : e \in zones[i].tags
        /\ \E e \in NameTags(zones[i].center_tags) :
               e \notin zones[i].tags /\ e[1] \in MapKeys(zones[i].tags)
        /\ zones[i].international_names # {}
    /\ \E i \in Positions :
        /\ zones[i].zone_type # Some("City")
        /\ SameWikidataAsCenter(zones[i])

----------------------------------------------------------------------------
\* the zones of the file about to be read, as parsed
InputZones == parsed_zones(Head(merger_files))

\* a readable file is read in this step
ReadsAFile == pc = "merging" /\ merger_files # <<>> /\ Head(merger_files).readable

\* C15: the merger starts with offset 0, and reading a file appends its parsed
\* zones in order, each with its id raised by the offset the merger held when
\* the file was opened and its parent raised by the same offset (no parent stays
\* no parent), nothing else changed: the parent relation of the input is kept,
\* and a first file is reproduced as it is.
C15_UniformOffsetPerInput ==
    /\ id_offset = 0
    /\ [][ReadsAFile =>
             /\ Len(writer') = Len(writer) + Len(InputZones)
             /\ \A k \in 1..Len(writer) : writer'[k] = writer[k]
             /\ \A k \in 1..Len(InputZones) :
                    LET in == InputZones[k]
                        out == writer'[Len(writer) + k]
                    IN /\ out.id = in.id + id_offset
                       /\ (in.parent = None => out.parent = None)
                       /\ (in.parent # None => out.parent = Some(Unwrap(in.parent) + id_offset))
                       /\ out.name = in.name
                       /\ \A m \in 1..Len(InputZones) :
                              (in.parent = Some(InputZones[m].id))
                                  <=> (out.parent = Some(writer'[Len(writer) + m].id))
             /\ (id_offset = 0 => \A k \in 1..Len(InputZones) :
                                      writer'[Len(writer) + k] = InputZones[k])]_vars

\* a zone with a parent was written with a positive offset
C15_Witness ==
    /\ pc = "merged"
    /\ \E k \in 1..Len(writer) :
        /\ writer[k].parent # None
        /\ Unwrap(writer[k].parent) > 2
        /\ writer[k].id > 2

\* C16: whatever the input files, empty and unparseable ones included, the ids
\* written are pairwise distinct, and once a file has been read id_offset is
\* greater than every id written so far.
C16_WrittenIdsDistinct ==
    /\ \A j, k \in 1..Len(writer) : j # k => writer[j].id # writer[k].id
    /\ \A k \in 1..Len(writer) : writer[k].id < id_offset

----------------------------------------------------------------------------
\* the generated cities that are the only one generated under their parent
SingleUnderParent ==
    {g \in Positions :
        /\ zones[g].is_generated
        /\ zones[g].parent # None
        /\ \A h \in Positions :
               zones[h].is_generated /\ zones[h].parent = zones[g].parent => h = g}

\* the existing towns that overlap the zone in position p
TownsOver(p) ==
    {t \in Positions :
        /\ ~zones[t].is_generated
        /\ is_city(zones[t])
        /\ Unwrap(zones[t].boundary) \cap Unwrap(zones[p].boundary) # {}}

\* C18: a city generated from the single place of its parent never keeps the
\* parent's polygon un-subtracted: it overlaps no existing town of the parent,
\* since a failed subtraction yields no city at all.
C18_SingleCityNeverUnsubtracted ==
    pc = "augmented" =>
        \A g \in SingleUnderParent :
            \A t \in TownsOver(Unwrap(zones[g].parent) + 1) :
                Unwrap(zones[g].boundary) \cap Unwrap(zones[t].boundary) = {}

\* the place zone read from a node at cell c
PlaceAt(c) == PlaceZone(0, [osm_id |-> NodeOsmId[1], name |-> "P", center |-> c])

\* the zones the claim lets be the parent of the place at c
ParentCandidates(c) ==
    {p \in Positions :
        /\ zones[p].bbox # None
        /\ BboxIntersects(Unwrap(zones[p].bbox), <<c, c>>)
        /\ zones[p].zone_type # None
        /\ ZoneTypeOrd[Unwrap(zones[p].zone_type)] >= ZoneTypeOrd["City"]
        /\ zones[p].boundary # None
        /\ c \in Unwrap(zones[p].boundary)}

\* C19: get_parent returns a zone of the smallest type among those whose bbox
\* meets the place, whose type is at least City and whose boundary contains the
\* place; a Suburb, a CityDistrict or an untyped zone is never returned, so a
\* place inside a Suburb and a StateDistrict gets the StateDistrict.
C19_ParentAtLeastCity ==
    pc = "hierarchy" =>
        \A c \in Cells :
            IF ParentCandidates(c) = {} THEN get_parent(PlaceAt(c), zones) = None
            ELSE /\ get_parent(PlaceAt(c), zones) # None
                 /\ Unwrap(get_parent(PlaceAt(c), zones)) + 1 \in ParentCandidates(c)
                 /\ \A q \in ParentCandidates(c) :
                        ZoneTypeOrd[Unwrap(ZoneAt(zones,
                            Unwrap(get_parent(PlaceAt(c), zones))).zone_type)]
                            <= ZoneTypeOrd[Unwrap(zones[q].zone_type)]

----------------------------------------------------------------------------
\* C11: the zip_codes of every zone are in strictly ascending order, hence
\* sorted and without duplicate, whether they were split from the
\* addr:postcode / postal_code tag or filled in by the postcode assigner.
C11_ZipCodesSortedAndUnique ==
    pc = "postcoded" =>
        \A i \in Positions :
            \A k \in 1..(Len(zones[i].zip_codes) - 1) :
                /\ StrLe(zones[i].zip_codes[k], zones[i].zip_codes[k + 1])
                /\ zones[i].zip_codes[k] # zones[i].zip_codes[k + 1]

\* the relation the zone in position i was built from
RelationOf(i) ==
    CHOOSE r \in SeqRange(pbf.relations) : RelationOsmId[r.id] = zones[i].osm_id

\* the node the member of this role resolves to, if any
NodeOfRole(r, role) ==
    IF \E k \in 1..Len(r.refs) :
           /\ r.refs[k].role = role
           /\ \E o \in pbf.objects : o[1] = r.refs[k].member /\ o[2].is_node
    THEN Some((CHOOSE o \in pbf.objects :
                  /\ o[2].is_node
                  /\ \E k \in 1..Len(r.refs) :
                         r.refs[k].role = role /\ r.refs[k].member = o[1])[2])
    ELSE None

\* C20: the center and the center_tags of a zone are those of the admin_centre
\* member when it resolves to a node, otherwise those of the label member when
\* it resolves to a node; only when neither does is the center the centroid of
\* the boundary, or none when the centroid is NaN, and center_tags empty.
C20_CenterFromAdminCentreElseLabel ==
    pc = "read" =>
        \A i \in Positions :
            LET r == RelationOf(i)
                n == IF NodeOfRole(r, "admin_centre") # None THEN NodeOfRole(r, "admin_centre")
                     ELSE NodeOfRole(r, "label")
            IN IF n # None
               THEN zones[i].center = Some(Unwrap(n).center)
                    /\ zones[i].center_tags = Unwrap(n).tags
               ELSE zones[i].center = (IF r.broken THEN None
                                       ELSE Some(SetMin(Unwrap(r.boundary))))
                    /\ zones[i].center_tags = {}

-----------------------------------------------------------------------------
\* Properties of the nested rule sets

\* the first matching container's nested rule set has an id rule of value no type
\* for the zone at position i
NestedUntypes(i) ==
    /\ HasRules(i)
    /\ ~IdRuled(RulesOf(i), zones[i])
    /\ Matches(i) # {}
    /\ <<zones[i].osm_id, None>> \in
           NestedAt(i, SetMin(Matches(i))).overrides.id_rules

\* C26: a zone for which the nested rule set of the first matching contained_by
\* container has an id rule of value "no type" gets no type, even when the
\* enclosing rule set's type_by_level has an entry for the zone's admin_level.
C26_NestedNoTypeWins ==
    pc = "typed" =>
        \A i \in Positions : NestedUntypes(i) => zones[i].zone_type = None

-----------------------------------------------------------------------------
\* Properties of the fatal errors

\* no country code is supplied and no zone of the input is a country, while the
\* rule corpus is not empty
NoCountryAtAll ==
    /\ country_code = None
    /\ CountryFinder_from_iter(zones).empty
    /\ read_libpostal_yaml_folder(libpostal) # {}

\* C21: without country code and without country zone create_ontology still
\* completes: type_zones returns no error, every zone is counted in
\* zone_without_country and left without type, and pruning removes them all.
C21_CompletesWithoutCountry ==
    NoCountryAtAll =>
        /\ pc # "error"
        /\ pc = "typed" =>
               /\ stats.zone_without_country = Len(zones)
               /\ \A i \in Positions : zones[i].zone_type = None
        /\ pc = "done" => zones = <<>>

-----------------------------------------------------------------------------
\* Properties of the order of the inclusion candidates

\* the sequences holding the elements of s in another order
Reorderings(s) ==
    {p \in [1..Len(s) -> {s[k] : k \in 1..Len(s)}] :
        \A v \in {s[k] : k \in 1..Len(s)} :
            Cardinality({k \in 1..Len(s) : p[k] = v}) =
                Cardinality({k \in 1..Len(s) : s[k] = v})}

\* C27: the parent build_hierarchy selects for a zone is the same for every
\* order of its inclusion list, ties on the smallest zone_type included.
C27_ParentIndependentOfOrder ==
    pc = "typed" =>
        \A i \in Positions :
            \A p \in Reorderings(inclusions[i]) :
                hierarchy_parent(zones, [inclusions EXCEPT ![i] = p], i) =
                    hierarchy_parent(zones, inclusions, i)

-----------------------------------------------------------------------------
\* Properties of the walk of the label computation

RECURSIVE WalkResolves(_, _, _)
\* the HierarchyIterator that labels position i, standing at position j with n steps
\* left, reaches a zone without parent, every index it hands to MutableSlice::get
\* being in range, being the id of the zone it maps to and not being the middle
\* index
WalkResolves(i, j, n) ==
    \/ zones[j].parent = None
    \/ LET p == Unwrap(zones[j].parent)
       IN /\ n > 0
          /\ p \in 0..(Len(zones) - 1)
          /\ p # i - 1
          /\ ZoneAt(zones, p).id = p
          /\ WalkResolves(i, p + 1, n - 1)

\* C30: compute_labels never panics and ends: when it starts, the walk of
\* HierarchyIterator from every zone is finite, every index it resolves is in range
\* and maps to zones[index], and none is the index of the zone being labelled.
C30_LabelWalkEndsWithoutPanic ==
    /\ pc # "panicked"
    /\ pc = "named" => \A i \in Positions : WalkResolves(i, i, Len(zones))

\* labels computed for a generated city under its parent and for a zone whose
\* parent has a parent itself
C30_Witness ==
    /\ pc = "labelled"
    /\ \E g, i \in Positions :
        /\ zones[g].is_generated
        /\ Len(ChainOf(g)) >= 2
        /\ zones[g].label # <<>>
        /\ Len(ChainOf(i)) >= 3
        /\ zones[i].label # <<>>

-----------------------------------------------------------------------------
\* Properties of the Voronoi step on the zone vector

\* C29: the step between build_hierarchy and compute_names only appends: the zone
\* vector before it is a prefix of the zone vector after it, every appended zone
\* is generated and typed City, and with Voronoi disabled the vector is unchanged.
C29_VoronoiOnlyAppends ==
    [][/\ (pc = "hierarchy" /\ pc' = "augmented") =>
              /\ Len(zones') >= Len(zones)
              /\ SubSeq(zones', 1, Len(zones)) = zones
              /\ \A k \in (Len(zones) + 1)..Len(zones') :
                     zones'[k].is_generated /\ zones'[k].zone_type = Some(CITY)
       /\ SkipAdditionalCities => zones' = zones]_vars

\* a generated city stands behind the zones read from the pbf, one of which has a
\* parent
C29_Witness ==
    /\ pc = "augmented"
    /\ \E g \in Positions :
        /\ zones[g].is_generated
        /\ \A i \in 1..(g - 1) : ~zones[i].is_generated
        /\ \E i \in 1..(g - 1) : zones[i].parent # None

-----------------------------------------------------------------------------
\* build_cosmogony: the reader, then create_ontology

\* build_cosmogony hands the zones of get_zones_and_stats to create_ontology
CreateOntology ==
    /\ pc = "read"
    /\ pc' = "start"
    /\ UNCHANGED <<zones, inclusions, libpostal, countries_rules, country_code, stats, handed>>
    /\ UNCHANGED <<pbf, filter_langs, merger_files, id_offset, writer, cache_vars>>

NextBuild ==
    \/ GetZonesAndStats
    \/ CreateOntology
    \/ Next

\* <<name, boundary>> of a relation: kept with either boundary, dropped for want
\* of a boundary, never constructed for want of a name
BuildShapes ==
    {<<Some("Z"), Some({1})>>, <<Some("Z"), Some({1, 2})>>,
     <<Some("Z"), None>>, <<None, Some({1})>>}

\* the type the id overrides give the k-th relation: a state district, a city,
\* then relations that stay without type
BuildType(k) ==
    IF k = 1 THEN Some("StateDistrict") ELSE IF k = 2 THEN Some("City") ELSE None

\* a pbf of administrative relations, some of which yield no zone, typed by id
\* overrides
InitBuild ==
    /\ \E shape \in [1..MaxZones -> BuildShapes] :
           pbf = [relations |->
                      [k \in 1..MaxZones |->
                          Relation(k, shape[k][1], <<None, None>>,
                                   <<shape[k][2], FALSE>>, <<Ref("outer", 13)>>)],
                  objects |-> ObjectSample,
                  postcodes |-> <<>>]
    /\ zones = <<>>
    /\ pc = "parsed"
    /\ inclusions = <<>>
    /\ libpostal = {<<<<"l", "u">>,
                      [NoRules EXCEPT !.overrides.id_rules =
                          {<<RelationOsmId[k], BuildType(k)>> : k \in 1..MaxZones}]>>}
    /\ countries_rules = {}
    /\ country_code = Some(<<"l", "u">>)
    /\ stats = CosmogonyStats_default
    /\ handed = <<>>
    /\ filter_langs = <<>>
    /\ merger_files = <<>>
    /\ id_offset = 0
    /\ writer = <<>>
    /\ CacheUnused

SpecBuild == InitBuild /\ [][NextBuild]_vars

-----------------------------------------------------------------------------
\* Properties of the zone indices

\* C22: from the construction of the zones until the pruning, the id of the zone
\* at position i is i (positions counted from 0), generated cities included, so
\* the ids are pairwise distinct.
C22_IdIsPosition ==
    pc # "done" =>
        /\ \A i \in Positions : zones[i].id = i - 1
        /\ \A i, j \in Positions : zones[i].id = zones[j].id => i = j

\* a generated city whose id is no longer the provisional id of its place seed,
\* behind the zones of a pbf one relation of which yielded no zone
C22_Witness ==
    /\ pc = "augmented"
    /\ Cardinality({i \in Positions : ~zones[i].is_generated}) < Len(pbf.relations)
    /\ \E g \in Positions :
        /\ zones[g].is_generated
        /\ zones[g].id = g - 1
        /\ g - 1 # 0

-----------------------------------------------------------------------------
\* Properties of the order of the pruning

\* a step of create_ontology that resolves a ZoneIndex or a parent pointer into
\* the zone vector: find_inclusions, type_zones, build_hierarchy,
\* compute_additional_cities, compute_labels
ResolvesIndices ==
    /\ pc \in {"start", "included", "typed", "hierarchy", "named"}
    /\ pc' # pc

\* C23: no zone is looked up by ZoneIndex after the pruning: zones are removed by
\* the last step of create_ontology only, no step follows it, and every step that
\* resolves indices or parent pointers runs on a zone vector in which the id of
\* each zone is still its position.
C23_NoLookupAfterPruning ==
    [][/\ Len(zones') < Len(zones) => (pc = "labelled" /\ pc' = "done")
       /\ pc = "done" => UNCHANGED vars
       /\ ResolvesIndices => \A i \in Positions : zones[i].id = i - 1]_vars

\* the pruning has removed a zone and left behind it a zone whose id is no longer
\* its position, and a zone whose parent pointer was resolved for its label
C23_Witness ==
    /\ pc = "done"
    /\ \E i \in Positions : zones[i].id # i - 1
    /\ \E i \in Positions : zones[i].parent # None /\ zones[i].label # <<>>

-----------------------------------------------------------------------------
\* assign_postcodes_to_zones over zones of every shape

\* a postcode area of twenty cells, of which one cell is exactly 5%
TwentyCells == 1..20

\* the postcodes of the pbf, in the order the R-tree yields them: none; one of
\* which a one-cell zone holds exactly 5% beside one of which it holds more; one
\* that meets the bbox of a zone but not the zone; two to be sorted
PostcodeAreas ==
    {<<>>,
     <<Postcode(<<"2">>, TwentyCells), Postcode(<<"1">>, TwentyCells \ {20})>>,
     <<Postcode(<<"1">>, {2})>>,
     <<Postcode(<<"3">>, {1}), Postcode(<<"1">>, {1, 2, 3})>>}

\* <<boundary, has a bbox, zip_codes>> of a zone
ZoneShapes ==
    ({None} \X {FALSE} \X {<<>>, <<<<"9">>>>})
        \cup ({Some({1}), Some({1, 3})} \X BOOLEAN \X {<<>>, <<<<"9">>>>})

ShapedZone(index, shape) ==
    [NewZone(index, Some(8), {1}, {}) EXCEPT
        !.boundary = shape[1],
        !.bbox = IF shape[1] # None /\ shape[2]
                 THEN bounding_rect(Unwrap(shape[1])) ELSE None,
        !.zip_codes = shape[3]]

\* the zones as the stages before the assigner leave them
InitPostcodes ==
    /\ \E shape \in [1..MaxZones -> ZoneShapes], postcodes \in PostcodeAreas :
        /\ zones = [k \in 1..MaxZones |-> ShapedZone(k - 1, shape[k])]
        /\ pbf = [relations |-> <<>>, objects |-> {}, postcodes |-> postcodes]
    /\ pc = "read"
    /\ inclusions = <<>>
    /\ libpostal = {}
    /\ countries_rules = {}
    /\ country_code = None
    /\ stats = CosmogonyStats_default
    /\ handed = <<>>
    /\ filter_langs = <<>>
    /\ merger_files = <<>>
    /\ id_offset = 0
    /\ writer = <<>>
    /\ CacheUnused

SpecPostcodes == InitPostcodes /\ [][AssignPostcodes]_vars

-----------------------------------------------------------------------------
\* Properties of the postcode assignment

\* more than 5% of the area of postcode p lies in the boundary b
OverFivePercent(b, p) ==
    100 * Cardinality(b \cap p.boundary) > 5 * Cardinality(p.boundary)

\* C28: assign_postcodes_to_zones adds, removes and reorders no zone and changes
\* no field but zip_codes; a zone with zip codes, or without boundary or bbox, is
\* left as it is; a zip code given to a zone is that of a postcode of whose area
\* strictly more than 5% lies in the zone.
C28_OnlyEmptyZipCodesFilled ==
    [][(pc = "read" /\ pc' = "postcoded") =>
           /\ Len(zones') = Len(zones)
           /\ \A i \in Positions :
               /\ [zones'[i] EXCEPT !.zip_codes = zones[i].zip_codes] = zones[i]
               /\ (\/ zones[i].zip_codes # <<>>
                   \/ zones[i].boundary = None
                   \/ zones[i].bbox = None) => zones'[i] = zones[i]
               /\ zones'[i] # zones[i] =>
                      \A code \in SeqRange(zones'[i].zip_codes) :
                          \E k \in 1..Len(pbf.postcodes) :
                              /\ pbf.postcodes[k].zipcode = code
                              /\ OverFivePercent(Unwrap(zones[i].boundary),
                                                 pbf.postcodes[k])]_vars

\* a one-cell zone holding exactly 5% of one postcode and more of another got the
\* zip code of the second only, beside a zone that kept its own zip code
C28_Witness ==
    /\ pc = "postcoded"
    /\ \E i, j \in Positions :
        /\ zones[i].boundary = Some({1})
        /\ zones[i].zip_codes = <<<<"1">>>>
        /\ \E k \in 1..Len(pbf.postcodes) :
               /\ pbf.postcodes[k].zipcode = <<"2">>
               /\ 100 * Cardinality({1} \cap pbf.postcodes[k].boundary)
                      = 5 * Cardinality(pbf.postcodes[k].boundary)
        /\ zones[j].zip_codes = <<<<"9">>>>
        /\ zones[j].boundary # None /\ zones[j].bbox # None

-----------------------------------------------------------------------------
\* The GEOS boundary cache shared by the threads that compute Voronoi cells.
\* Each thread runs the loop of extrude_existing_town over the towns; a position
\* of a thread is a point of GeosBoundaryCache::intersects or ::difference.

MaxThreads == 2
MaxTowns == 2

Threads == 1..MaxThreads
Towns == 1..MaxTowns

\* an insertion that keeps failed conversions only
cache_insert_failures(cache, id, value) ==
    IF value = None THEN [cache EXCEPT ![id] = Some(value)] ELSE cache

\* HashMap::insert
cache_insert(cache, id, value) == [cache EXCEPT ![id] = Some(value)]

\* town.boundary.try_into(): the geometry of the town's boundary, when it converts
try_into_geos(town) == IF town_boundaries[town] THEN Some(town) ELSE None

\* the locals of a thread before a call of intersects for its i-th town
ThreadAt(i) ==
    [pc |-> "loop", i |-> i, to_cache |-> FALSE, geos_value |-> None,
     is_intersecting |-> FALSE]

\* the pipeline stays where it is while the threads run
PipelineUnchanged ==
    UNCHANGED <<zones, inclusions, libpostal, countries_rules, country_code, stats,
                handed, pc, pbf, filter_langs, merger_files, id_offset, writer>>

\* for town in towns: self.cache.read() of intersects; a reader waits for the
\* writer to leave
CallIntersects ==
    /\ \E t \in Threads :
        /\ voronoi_threads[t].pc = "loop"
        /\ voronoi_threads[t].i <= MaxTowns
        /\ cache_lock.writer = {}
        /\ cache_lock' = [cache_lock EXCEPT !.readers = @ \cup {t}]
        /\ voronoi_threads' = [voronoi_threads EXCEPT ![t].pc = "reading"]
    /\ UNCHANGED <<geos_cache, town_boundaries>>
    /\ PipelineUnchanged

\* the loop over the towns is over
TownsDone ==
    /\ \E t \in Threads :
        /\ voronoi_threads[t].pc = "loop"
        /\ voronoi_threads[t].i > MaxTowns
        /\ voronoi_threads' = [voronoi_threads EXCEPT ![t].pc = "finished"]
    /\ UNCHANGED <<geos_cache, cache_lock, town_boundaries>>
    /\ PipelineUnchanged

\* match self.cache.read().unwrap().get(&town.id): the arm is chosen; the guard of
\* the scrutinee lives until the end of the match
MatchIntersects ==
    /\ \E t \in Threads :
        /\ voronoi_threads[t].pc = "reading"
        /\ LET found == geos_cache[voronoi_threads[t].i]
           IN voronoi_threads' =
                  [voronoi_threads EXCEPT ![t] =
                      IF found = None
                      THEN [@ EXCEPT !.pc = "converting", !.to_cache = TRUE]
                      ELSE IF Unwrap(found) = None
                      THEN [@ EXCEPT !.pc = "matched", !.is_intersecting = FALSE]
                      ELSE [@ EXCEPT !.pc = "intersecting"]]
    /\ UNCHANGED <<geos_cache, cache_lock, town_boundaries>>
    /\ PipelineUnchanged

\* geos_value = town.boundary.as_ref().and_then(|b| b.try_into()...ok())
Convert ==
    /\ \E t \in Threads :
        /\ voronoi_threads[t].pc = "converting"
        /\ LET value == try_into_geos(voronoi_threads[t].i)
           IN voronoi_threads' =
                  [voronoi_threads EXCEPT ![t] =
                      IF value = None
                      THEN [@ EXCEPT !.pc = "matched", !.geos_value = None,
                                     !.is_intersecting = FALSE]
                      ELSE [@ EXCEPT !.pc = "intersecting", !.geos_value = value]]
    /\ UNCHANGED <<geos_cache, cache_lock, town_boundaries>>
    /\ PipelineUnchanged

\* g.intersects(geom).unwrap_or(false)
Intersects ==
    /\ \E t \in Threads, meets \in BOOLEAN :
        /\ voronoi_threads[t].pc = "intersecting"
        /\ voronoi_threads' =
               [voronoi_threads EXCEPT ![t].pc = "matched", ![t].is_intersecting = meets]
    /\ UNCHANGED <<geos_cache, cache_lock, town_boundaries>>
    /\ PipelineUnchanged

\* the end of the let statement of the match: the read guard is dropped
EndMatch ==
    /\ \E t \in Threads :
        /\ voronoi_threads[t].pc = "matched"
        /\ cache_lock' = [cache_lock EXCEPT !.readers = @ \ {t}]
        /\ voronoi_threads' =
               [voronoi_threads EXCEPT ![t].pc =
                   IF voronoi_threads[t].to_cache THEN "to_cache" ELSE "returned"]
    /\ UNCHANGED <<geos_cache, town_boundaries>>
    /\ PipelineUnchanged

\* if to_cache { let mut cache = self.cache.write().unwrap(): a writer waits for
\* the readers and the writer to leave
AcquireWrite ==
    /\ \E t \in Threads :
        /\ voronoi_threads[t].pc = "to_cache"
        /\ cache_lock.readers = {} /\ cache_lock.writer = {}
        /\ cache_lock' = [cache_lock EXCEPT !.writer = {t}]
        /\ voronoi_threads' = [voronoi_threads EXCEPT ![t].pc = "writing"]
    /\ UNCHANGED <<geos_cache, town_boundaries>>
    /\ PipelineUnchanged

\* cache.insert(town.id, geos_value) }: the write guard is dropped
Insert ==
    /\ \E t \in Threads :
        /\ voronoi_threads[t].pc = "writing"
        /\ geos_cache' = cache_insert(geos_cache, voronoi_threads[t].i,
                                      voronoi_threads[t].geos_value)
        /\ cache_lock' = [cache_lock EXCEPT !.writer = {}]
        /\ voronoi_threads' = [voronoi_threads EXCEPT ![t].pc = "returned"]
    /\ UNCHANGED town_boundaries
    /\ PipelineUnchanged

\* if geos_cache.intersects(&g_boundary, town) is false: the next town
NextTown ==
    /\ \E t \in Threads :
        /\ voronoi_threads[t].pc = "returned"
        /\ ~voronoi_threads[t].is_intersecting
        /\ voronoi_threads' = [voronoi_threads EXCEPT ![t] = ThreadAt(@.i + 1)]
    /\ UNCHANGED <<geos_cache, cache_lock, town_boundaries>>
    /\ PipelineUnchanged

\* geos_cache.difference(&g_boundary, town): self.cache.read()
CallDifference ==
    /\ \E t \in Threads :
        /\ voronoi_threads[t].pc = "returned"
        /\ voronoi_threads[t].is_intersecting
        /\ cache_lock.writer = {}
        /\ cache_lock' = [cache_lock EXCEPT !.readers = @ \cup {t}]
        /\ voronoi_threads' = [voronoi_threads EXCEPT ![t].pc = "difference_reading"]
    /\ UNCHANGED <<geos_cache, town_boundaries>>
    /\ PipelineUnchanged

\* match self.cache.read().unwrap().get(&town.id) of difference
MatchDifference ==
    /\ \E t \in Threads :
        /\ voronoi_threads[t].pc = "difference_reading"
        /\ LET found == geos_cache[voronoi_threads[t].i]
           IN voronoi_threads' =
                  [voronoi_threads EXCEPT ![t].pc =
                      IF found # None /\ Unwrap(found) # None
                      THEN "differencing" ELSE "unreachable"]
    /\ UNCHANGED <<geos_cache, cache_lock, town_boundaries>>
    /\ PipelineUnchanged

\* g.difference(geom) returns, Ok or Err; the read guard is dropped with the
\* function body; the next town
Difference ==
    /\ \E t \in Threads :
        /\ voronoi_threads[t].pc = "differencing"
        /\ cache_lock' = [cache_lock EXCEPT !.readers = @ \ {t}]
        /\ voronoi_threads' = [voronoi_threads EXCEPT ![t] = ThreadAt(@.i + 1)]
    /\ UNCHANGED <<geos_cache, town_boundaries>>
    /\ PipelineUnchanged

NextCache ==
    \/ CallIntersects
    \/ TownsDone
    \/ MatchIntersects
    \/ Convert
    \/ Intersects
    \/ EndMatch
    \/ AcquireWrite
    \/ Insert
    \/ NextTown
    \/ CallDifference
    \/ MatchDifference
    \/ Difference

\* GeosBoundaryCache::default() and threads about to start, over towns whose
\* boundaries convert or not
InitCache ==
    /\ geos_cache = [town \in Towns |-> None]
    /\ cache_lock = [readers |-> {}, writer |-> {}]
    /\ voronoi_threads = [t \in Threads |-> ThreadAt(1)]
    /\ town_boundaries \in [Towns -> BOOLEAN]
    /\ zones = <<>>
    /\ inclusions = <<>>
    /\ libpostal = {}
    /\ countries_rules = {}
    /\ country_code = None
    /\ stats = CosmogonyStats_default
    /\ handed = <<>>
    /\ pc = "hierarchy"
    /\ pbf = <<>>
    /\ filter_langs = <<>>
    /\ merger_files = <<>>
    /\ id_offset = 0
    /\ writer = <<>>

SpecCache == InitCache /\ [][NextCache]_vars

-----------------------------------------------------------------------------
\* Properties of the GEOS boundary cache

\* the thread holds the lock of the map, for reading or for writing
HoldsLock(t) == t \in cache_lock.readers \/ t \in cache_lock.writer

\* the thread is inside a geometry operation: the conversion of a boundary, or
\* the computation of intersects or of difference
InGeometryOperation(t) ==
    voronoi_threads[t].pc \in {"converting", "intersecting", "differencing"}

\* C24: no thread holds the lock of the cache's map, for reading or for writing,
\* while it runs a geometry operation.
C24_NoLockDuringGeometry ==
    \A t \in DOMAIN voronoi_threads : InGeometryOperation(t) => ~HoldsLock(t)

\* the town the thread is dealing with
TownOf(t) == voronoi_threads[t].i

\* C25: when difference looks a town up, the cache holds a converted geometry for
\* it, so that unreachable!() is not reached; an entry of the cache is never
\* removed and never replaced by another value.
C25_DifferenceFindsGeometry ==
    [][/\ \A t \in DOMAIN voronoi_threads :
              /\ voronoi_threads'[t].pc # "unreachable"
              /\ voronoi_threads'[t].pc = "difference_reading" =>
                     /\ geos_cache'[TownOf(t)] # None
                     /\ Unwrap(geos_cache'[TownOf(t)]) # None
       /\ \A town \in DOMAIN geos_cache :
              geos_cache[town] # None => geos_cache'[town] = geos_cache[town]]_vars

\* a thread computes a difference with a town whose geometry another thread has
\* inserted again meanwhile, beside a town cached as not convertible
C25_Witness ==
    /\ \E t, u \in DOMAIN voronoi_threads :
        /\ t # u
        /\ voronoi_threads[t].pc = "differencing"
        /\ voronoi_threads[u].pc = "returned"
        /\ voronoi_threads[u].to_cache
        /\ TownOf(u) = TownOf(t)
    /\ \E town \in DOMAIN geos_cache : geos_cache[town] = Some(None)

====
